---------------------------- MODULE Spec2Model ----------------------------
(***************************************************************************)
(* Distributed batch dispatch and result aggregation of the qualification  *)
(* tool (user_tools/src/spark_rapids_tools/tools/distributed).             *)
(*                                                                         *)
(* The coordinator (DistributedJarExecutor.run_tool_as_spark_app) is       *)
(* written to prepare the shared-storage root, list the event logs, stage  *)
(* the dependencies, dispatch one task per event log                       *)
(* (SparkJobManager.submit_map_job), combine the per-item output           *)
(* directories (ResultCombiner) and stop the cluster context.              *)
(*                                                                         *)
(* run_tool_as_spark_app itself (Spec; SpecRun adds the fairness of a      *)
(* coordinator that keeps running) ends at its first statement: the        *)
(* constructor of HdfsManager calls Utilities.get_cache_dir, which the     *)
(* class Utilities of utils.py does not define. No HdfsManager exists, so  *)
(* init_setup and the statements that follow it are steps of no run.       *)
(*                                                                         *)
(* The components that can be constructed are driven on their own: a       *)
(* SparkJobManager and its submit_map_job on the map function of the       *)
(* executor (SpecDispatch; SpecDispatchLive adds the fairness of a driver  *)
(* and a scheduler that keep running), a ResultCombiner (SpecCombine, and  *)
(* SpecLingering over a root that holds the directories of the dispatched  *)
(* event logs and possibly one more), and four functions applied to all    *)
(* their bounded inputs: run_jar_map_func (SpecWorker), _get_jar_command   *)
(* (SpecCommand), get_files_from_path (SpecListing) and the process() of   *)
(* each file processor (SpecProcessor).                                    *)
(*                                                                         *)
(* External collaborators are modelled at their boundary: the child        *)
(* process by its outcome, the analysis tool by the directory it leaves on *)
(* shared storage, the parallel map by one task per partition that the     *)
(* scheduler runs again after a failure, up to spark.task.maxFailures      *)
(* attempts, pyarrow's copy_file/copy_files by "raises when the source is  *)
(* missing".                                                               *)
(***************************************************************************)
EXTENDS Integers, Sequences, FiniteSets, TLC

(* ------------------------------ bounds -------------------------------- *)
MaxItems == 2          \* event-log files in the input directory
MaxCombines == 2       \* combine_results invocations in the combiner harness
MaxAttempts == 2       \* largest spark.task.maxFailures of a cluster
MaxStoredLines == 1    \* most lines of the run log begun when its write fails

Items == 1..MaxItems

(* ------------------------------ state --------------------------------- *)
VARIABLES
    pc,                   \* position of the coordinator / harness
    err,                  \* "" or the exception that ended the run
    input_list,           \* eventlog_files handed to submit_map_job
    input_list_rdd,       \* the partitions of parallelize(input_list, numSlices)
    taskState,            \* per item: "none", "pending", "running", "done", "raised"
    map_fn_result,        \* per item: [logs, result] returned by run_jar_map_func
    started,              \* per item: number of times its subprocess was launched
    task_max_failures,    \* spark.task.maxFailures of the SparkContext
    childOf,              \* per item: the outcome of its child process
    storage,              \* shared-storage root: per item directory
    manifest,             \* [written, lines] the run log file: it exists, its text
    manifestWrites,       \* number of times the dispatch opened the run log to write
    result,               \* list returned by submit_map_job
    directories,          \* listing of the root taken by combine_results
    dirIdx,               \* number of listed directories already visited
    combined_dataframes,  \* ResultCombiner.combined_dataframes
    combined_json_data,   \* ResultCombiner.combined_json_data
    combinedTree,         \* the local combined output directory
    procTrace,            \* processors invoked by the current combine_results
    invocation,           \* number of combine_results invocations started
    instanceUses,         \* invocations started on the current ResultCombiner
    firstTree,            \* combined tree after the first invocation finished
    hdfsCombinedFile,     \* HDFS file at the combined directory's path (0: none)
    sparkStopped,         \* SparkContext.stop() has been called on the context
    env,                  \* which of the home-directory variables are set
    rootSetup,            \* [rm, mkdir] outcome of init_setup (no run gets to it)
    phaseLog,             \* steps (dispatch, combine) started and finished, in order
    submission_cmd,       \* the ToolSubmissionCommand of the executor
    jar_command,          \* argument vector last built by _get_jar_command
    directory,            \* [uri, entries] the event-log directory to list
    file_list,            \* paths last returned by get_files_from_path
    output_dirs,          \* executor output directory per returned path
    stagedFiles,          \* paths added to the SparkContext with addFile
    onceState             \* combiner state after a processor's first run

vars == <<pc, err, input_list, input_list_rdd, taskState, map_fn_result, started,
          task_max_failures, childOf, storage,
          manifest, manifestWrites, result, directories, dirIdx,
          combined_dataframes, combined_json_data, combinedTree, procTrace,
          invocation, instanceUses, firstTree, hdfsCombinedFile, sparkStopped, env,
          rootSetup,
          phaseLog, submission_cmd, jar_command, directory, file_list, output_dirs,
          stagedFiles, onceState>>

dispatchVars == <<input_list, input_list_rdd, taskState, map_fn_result, started,
                  task_max_failures, childOf, manifest,
                  manifestWrites, result>>
combineVars == <<directories, dirIdx, combined_dataframes, combined_json_data,
                 combinedTree, procTrace, invocation, instanceUses, firstTree,
                 hdfsCombinedFile>>
commandVars == <<submission_cmd, jar_command>>
listingVars == <<directory, file_list, output_dirs>>
processorVars == <<onceState>>
toolVars == <<env, commandVars, listingVars, stagedFiles, processorVars>>


(* ------------------- worker executor (main.py) ------------------------ *)
\* Outcome of subprocess.run(jar_command, check=True, capture_output=True,
\* text=True): the child exits with a code, or launching or running it fails
\* with an OSError (missing interpreter, permissions, ...). A captured stream
\* is empty, or text whose last line ends with a newline ("lines") or does
\* not ("open").
ExitCodes == {0, 1}
Streams == {"", "lines", "open"}
NoChild == [kind |-> "none", code |-> 0, out |-> "", errout |-> ""]
ChildOutcomes ==
    {[kind |-> "exit", code |-> c, out |-> o, errout |-> e] :
        c \in ExitCodes, o \in Streams, e \in Streams}
    \cup {[kind |-> "oserror", code |-> 0, out |-> "", errout |-> ""]}

\* The outcomes exercised by a dispatch: the captured streams are both empty
\* or both lines of text ended by a newline.
RunOutcomes == {c \in ChildOutcomes : c.out = c.errout /\ c.out # "open"}

\* A line of text is <<tag, n>>; n is the item, the exit code, the stream the
\* text was captured from (1 stdout, 2 stderr), or 0. A string is the sequence
\* of its lines, str.split("\n"): the empty string is one empty line.
Line(tag, n) == <<tag, n>>
EmptyLine == Line("", 0)
EmptyString == <<EmptyLine>>

\* The captured text of a stream, as a string.
StreamText(s, which) ==
    CASE s = "" -> EmptyString
      [] s = "lines" -> <<Line("output", which), EmptyLine>>
      [] s = "open" -> <<Line("output", which)>>

\* f"{header}\n{stream}": the header line, then the lines of the stream.
WithStream(header, s, which) == <<header>> \o StreamText(s, which)

\* The except clause of _submit_jar_cmd: the exceptions it turns into log lines.
CaughtBySubmit(child) == child.kind = "exit"

\* The log entries of the try block of _submit_jar_cmd after a zero exit, and
\* of its except block after a non-zero exit: stdout is reported always after
\* a zero exit, a stream otherwise only when it is not empty.
SuccessNarration(child) ==
    <<WithStream(Line("succeeded", 0), child.out, 1)>>
    \o (IF child.errout # ""
          THEN <<WithStream(Line("stderr", 0), child.errout, 2)>> ELSE <<>>)
FailureNarration(child) ==
    <<<<Line("failed", child.code)>>>>
    \o (IF child.out # ""
          THEN <<WithStream(Line("stdout", 0), child.out, 1)>> ELSE <<>>)
    \o (IF child.errout # ""
          THEN <<WithStream(Line("stderr", 0), child.errout, 2)>> ELSE <<>>)

\* Variant of _submit_jar_cmd whose processing-time line is appended on the
\* success path only instead of in the finally clause.
submit_jar_cmd_time_on_success(i, child) ==
    LET startLine == <<<<Line("started", i)>>>>
        timeLine == <<<<Line("time", 0)>>>>
    IN  IF child.kind = "exit" /\ child.code = 0
          THEN [logs |-> startLine \o SuccessNarration(child) \o timeLine,
                raised |-> FALSE]
        ELSE IF CaughtBySubmit(child)
          THEN [logs |-> startLine \o FailureNarration(child), raised |-> FALSE]
        ELSE [logs |-> startLine, raised |-> TRUE]
\* DistributedJarExecutor._submit_jar_cmd: [logs, raised]; logs is its list of
\* log entries when it returns or raises, each entry a string.
submit_jar_cmd(i, child) ==
    LET startLine == <<<<Line("started", i)>>>>
        timeLine == <<<<Line("time", 0)>>>>
    IN  IF child.kind = "exit" /\ child.code = 0
          THEN [logs |-> startLine \o SuccessNarration(child) \o timeLine,
                raised |-> FALSE]
        ELSE IF CaughtBySubmit(child)
          THEN [logs |-> startLine \o FailureNarration(child) \o timeLine,
                raised |-> FALSE]
        ELSE [logs |-> startLine \o timeLine, raised |-> TRUE]

\* run_jar_map_func built by _create_run_jar_map_func: the item's output
\* directory is <hdfs_base_dir>/<basename(file_path)>, identified by the item.
\* logs.extend runs only when _submit_jar_cmd returned: when it raised, the
\* list holds the two heading entries.
run_jar_map_func(i, child) ==
    LET head == <<<<Line("processing", i)>>, <<Line("outdir", i)>>>>
        sub == submit_jar_cmd(i, child)
    IN  [logs |-> IF sub.raised THEN head ELSE head \o sub.logs,
         result |-> i, raised |-> sub.raised]

(* ------------------ job dispatcher (spark_job_manager.py) ------------- *)
RECURSIVE Flatten(_)
Flatten(strs) == IF strs = <<>> THEN <<>> ELSE Head(strs) \o Flatten(Tail(strs))

\* "\n".join(logs): the lines of the entries one after the other; the join of
\* no entry is the empty string.
JoinLines(logs) == IF logs = <<>> THEN EmptyString ELSE Flatten(logs)

RECURSIVE JoinBlocks(_)
\* "\n\n".join("\n".join(logs) for logs in logs_arr_list): the lines of the
\* blocks, one empty line between consecutive blocks.
JoinBlocks(blocks) ==
    IF blocks = <<>> THEN EmptyString
    ELSE IF Len(blocks) = 1 THEN JoinLines(blocks[1])
    ELSE JoinLines(blocks[1]) \o <<EmptyLine>> \o JoinBlocks(Tail(blocks))

\* SparkJobManager._write_output: the text written to the run log.
write_output_without_total(logs_arr_list) == JoinBlocks(logs_arr_list)
write_output(logs_arr_list) ==
    JoinBlocks(logs_arr_list) \o <<Line("jobtook", 0)>>

\* zip(*map_fn_result): the log bundles and the results, position by position.
UnzipLogs(res) == [k \in 1..Len(res) |-> res[k].logs]
\* Variant of the unzip that returns the results in reverse order.
UnzipResultReversed(res) == [k \in 1..Len(res) |-> res[Len(res) + 1 - k].result]
UnzipResult(res) == [k \in 1..Len(res) |-> res[k].result]

\* rdd.map(map_func).collect(): one element per partition, in partition order.
Collected == [k \in 1..Len(input_list) |-> map_fn_result[input_list[k]]]


(* ------------------- item directories on shared storage --------------- *)
\* File names the analysis tool may leave in its output directory, in the
\* order a directory listing returns them.
CsvNames == <<"app.csv", "exec.csv">>
JsonNames == <<"report.json">>
LogNames == <<"tool.log">>
Range(seq) == {seq[k] : k \in 1..Len(seq)}
RawPaths == <<"metrics.bin">>
\* Relative paths <<subdirectory, name>> of item i's raw_metrics subtree: one
\* in a subdirectory every item writes (0), one in a subdirectory of its own.
RawFilesOf(i) == {0, i} \X Range(RawPaths)

\* What item i's tool writes into one file; rows, records and bytes carry
\* the item that wrote them.
CsvFile(i, f) == [columns |-> <<"c1", "c2">>, rows |-> <<<<i, f, 1>>, <<i, f, 2>>>>]
JsonKinds == {"absent", "list", "malformed"}
JsonFile(i, f, kind) ==
    IF kind = "list" THEN [isRecordList |-> TRUE, recs |-> <<[id |-> i]>>]
    ELSE [isRecordList |-> FALSE, recs |-> <<>>]
LogFile(i, f) == <<<<"log", i>>>>

\* The tool's output directory (<item dir>/rapids_4_spark_qualification_output).
ToolOutput(i, hasProps, csvs, jsonKind, hasLog, hasRaw) ==
    [props |-> IF hasProps THEN i ELSE 0,
     csv   |-> [f \in csvs |-> CsvFile(i, f)],
     json  |-> [f \in (IF jsonKind = "absent" THEN {} ELSE Range(JsonNames))
                  |-> JsonFile(i, f, jsonKind)],
     log   |-> [f \in (IF hasLog THEN Range(LogNames) ELSE {}) |-> LogFile(i, f)],
     raw   |-> [exists |-> hasRaw,
                files |-> [q \in (IF hasRaw THEN RawFilesOf(i) ELSE {}) |-> i]]]

AbsentDir == [exists |-> FALSE, entries |-> <<>>]
EmptyDir == [exists |-> TRUE, entries |-> <<>>]
DirWith(out) == [exists |-> TRUE, entries |-> <<out>>]

\* The shapes an item directory can have: absent, empty, or holding the tool's
\* output directory with any subset of the artifact kinds.
DirShapes ==
    {[kind |-> "absent"], [kind |-> "empty"]} \cup
    {[kind |-> "output", props |-> p, csvs |-> c, json |-> j, raw |-> r] :
        p \in BOOLEAN, c \in SUBSET Range(CsvNames), j \in JsonKinds,
        r \in BOOLEAN}

\* An item directory that holds a second child entry after the tool's output
\* directory; what the second entry holds carries -i instead of i.
OtherEntry(i) == ToolOutput(0 - i, TRUE, Range(CsvNames), "list", TRUE, TRUE)
TwoEntryShapes ==
    {[kind |-> "two", props |-> TRUE, csvs |-> c, json |-> "list", raw |-> TRUE] :
        c \in {{}, Range(CsvNames)}}
\* The shapes of the item directories a combiner is driven over.
CombineShapes == DirShapes \cup TwoEntryShapes

\* Item i's directory of the given shape.
ItemDir(i, shape) ==
    CASE shape.kind = "absent" -> AbsentDir
      [] shape.kind = "empty" -> EmptyDir
      [] shape.kind = "two" ->
            [exists |-> TRUE,
             entries |-> <<ToolOutput(i, shape.props, shape.csvs, shape.json,
                                      TRUE, shape.raw),
                           OtherEntry(i)>>]
      [] OTHER -> DirWith(ToolOutput(i, shape.props, shape.csvs, shape.json,
                                     TRUE, shape.raw))

\* The directory states the tasks of a dispatch can leave: absent, empty,
\* complete, or partially populated (raw_metrics missing, or a malformed
\* structured file).
RunShapes ==
    {s \in DirShapes :
        s.kind = "output" => s.props /\ s.csvs = Range(CsvNames) /\ s.json # "absent"}

\* What the tool of one task leaves under the root: nothing, its complete
\* output, or a partially populated directory (raw_metrics missing).
TaskShapes ==
    {s \in RunShapes : s.kind # "empty" /\ (s.kind = "output" => s.json = "list")}


(* ------------------- result combiner (result_combiner.py) ------------- *)
EmptyMap == <<>>
Put(m, k, v) == [x \in (DOMAIN m) \cup {k} |-> IF x = k THEN v ELSE m[x]]

EmptyTree == [props |-> 0, csv |-> EmptyMap, json |-> EmptyMap,
              log |-> EmptyMap, raw |-> EmptyMap]

\* FileProcessor.get_matching_files: the files of the directory whose name
\* matches the pattern, in listing order.
get_matching_files(names, files) == SelectSeq(names, LAMBDA f : f \in DOMAIN files)

\* Variant of the concatenation that puts the new frame first.
ConcatNewFirst(a, b) == [columns |-> a.columns, rows |-> b.rows \o a.rows]
\* pd.concat([a, b], ignore_index=True) of frames with the same columns.
Concat(a, b) == [columns |-> a.columns, rows |-> a.rows \o b.rows]

\* The state a processor works on: the two accumulators of the ResultCombiner,
\* the local combined tree, the HDFS file at the combined directory's path,
\* the error raised so far and the processors invoked.
CombinerState(dfs, js, tree, hdfs_file, trace) ==
    [dfs |-> dfs, json |-> js, tree |-> tree, hdfs_file |-> hdfs_file,
     err |-> "", trace |-> trace]

RECURSIVE CsvLoop(_, _, _)
CsvLoop(dfs, files, todo) ==
    IF todo = <<>> THEN dfs
    ELSE LET f == Head(todo)
             csv_data == files[f]
         IN  CsvLoop(IF f \in DOMAIN dfs
                       THEN Put(dfs, f, Concat(dfs[f], csv_data))
                       ELSE Put(dfs, f, csv_data),
                     files, Tail(todo))

\* Variant of the tabular processor that writes each merged table to the
\* combined tree as soon as it has accumulated the item.
CSVProcessWritingThrough(cs, dir, k) ==
    LET dfs == CsvLoop(cs.dfs, dir.csv, get_matching_files(CsvNames, dir.csv))
    IN  [cs EXCEPT !.dfs = dfs,
                   !.tree.csv = [f \in (DOMAIN cs.tree.csv) \cup (DOMAIN dfs) |->
                                    IF f \in DOMAIN dfs
                                      THEN [header |-> dfs[f].columns, rows |-> dfs[f].rows]
                                    ELSE cs.tree.csv[f]],
                   !.trace = Append(cs.trace, <<"csv", k>>)]
\* CSVProcessor.process
CSVProcess(cs, dir, k) ==
    [cs EXCEPT !.dfs = CsvLoop(cs.dfs, dir.csv, get_matching_files(CsvNames, dir.csv)),
               !.trace = Append(cs.trace, <<"csv", k>>)]

\* Variant of the shape check that accepts any top level.
AcceptsAnyShape(data) == TRUE
\* isinstance(data, list) and all(isinstance(item, dict) for item in data)
IsListOfRecords(data) == data.isRecordList

\* Variant of the accumulation that replaces the records kept so far.
ExtendReplacing(acc, recs) == recs
\* combined_json_data[name].extend(data)
Extend(acc, recs) == acc \o recs

RECURSIVE JsonLoop(_, _, _)
\* [data, err]: the loop stops at the first file that is not a list of records.
JsonLoop(js, files, todo) ==
    IF todo = <<>> THEN [data |-> js, err |-> ""]
    ELSE LET f == Head(todo)
             data == files[f]
         IN  IF ~IsListOfRecords(data)
               THEN [data |-> js, err |-> "RuntimeError: JSON"]
             ELSE JsonLoop(IF f \in DOMAIN js
                             THEN Put(js, f, Extend(js[f], data.recs))
                             ELSE Put(js, f, data.recs),
                           files, Tail(todo))

\* JSONProcessor.process
JSONProcess(cs, dir, k) ==
    LET r == JsonLoop(cs.json, dir.json, get_matching_files(JsonNames, dir.json))
    IN  [cs EXCEPT !.json = r.data, !.err = r.err,
                   !.trace = Append(cs.trace, <<"json", k>>)]

RECURSIVE LogLoop(_, _, _)
\* output_file.open('a'): the content is appended to the file of the tree.
LogLoop(logs, files, todo) ==
    IF todo = <<>> THEN logs
    ELSE LET f == Head(todo)
         IN  LogLoop(Put(logs, f, (IF f \in DOMAIN logs THEN logs[f] ELSE <<>>)
                                  \o files[f]),
                     files, Tail(todo))

\* Variant of the log processor that opens the combined file for writing
\* instead of appending.
LogProcessOverwriting(cs, dir, k) ==
    [cs EXCEPT !.tree.log = [f \in (DOMAIN cs.tree.log) \cup (DOMAIN dir.log) |->
                                IF f \in DOMAIN dir.log THEN dir.log[f]
                                ELSE cs.tree.log[f]],
               !.trace = Append(cs.trace, <<"log", k>>)]
\* LogProcessor.process
LogProcess(cs, dir, k) ==
    [cs EXCEPT !.tree.log = LogLoop(cs.tree.log, dir.log,
                                    get_matching_files(LogNames, dir.log)),
               !.trace = Append(cs.trace, <<"log", k>>)]

\* Variant of the raw-metrics copy that keeps a file the tree already has.
RawMetricsProcessKeepingFirst(cs, dir, k) ==
    IF ~dir.raw.exists
      THEN [cs EXCEPT !.err = "FileNotFoundError: raw_metrics",
                      !.trace = Append(cs.trace, <<"raw", k>>)]
    ELSE [cs EXCEPT !.tree.raw = [q \in (DOMAIN cs.tree.raw) \cup (DOMAIN dir.raw.files) |->
                                     IF q \in DOMAIN cs.tree.raw
                                       THEN cs.tree.raw[q] ELSE dir.raw.files[q]],
                    !.trace = Append(cs.trace, <<"raw", k>>)]
\* RawMetricsProcessor.process: fs.copy_files of <dir>/raw_metrics into the
\* combined tree; it raises when the subtree does not exist.
RawMetricsProcess(cs, dir, k) ==
    IF ~dir.raw.exists
      THEN [cs EXCEPT !.err = "FileNotFoundError: raw_metrics",
                      !.trace = Append(cs.trace, <<"raw", k>>)]
    ELSE [cs EXCEPT !.tree.raw = [q \in (DOMAIN cs.tree.raw) \cup (DOMAIN dir.raw.files) |->
                                     IF q \in DOMAIN dir.raw.files
                                       THEN dir.raw.files[q] ELSE cs.tree.raw[q]],
                    !.trace = Append(cs.trace, <<"raw", k>>)]

\* RuntimePropertiesProcessor.process: hdfs_fs.copy_file of
\* <dir>/runtime.properties to the path string of the combined directory, a
\* copy inside HDFS: the file lands in HDFS at that path and the local
\* combined tree is left as it is; it raises when the source does not exist.
RuntimePropertiesProcess(cs, dir, k) ==
    IF dir.props = 0
      THEN [cs EXCEPT !.err = "FileNotFoundError: runtime.properties",
                      !.trace = Append(cs.trace, <<"props", k>>)]
    ELSE [cs EXCEPT !.hdfs_file = dir.props,
                    !.trace = Append(cs.trace, <<"props", k>>)]

\* The guard of combine_results before the runtime-properties processor.
RunsRuntimeProperties(dfs) == DOMAIN dfs = {}

\* A processor runs only if no earlier one raised.
Then(cs, next) == IF cs.err # "" THEN cs ELSE next

\* One iteration of the loop of combine_results over item directory k whose
\* first child entry is dir: each processor runs on the state the previous
\* one left.
ProcessItem(cs0, dir, k) ==
    LET s1 == {IF RunsRuntimeProperties(cs0.dfs)
                 THEN RuntimePropertiesProcess(cs0, dir, k) ELSE cs0}
        s2 == {Then(c, CSVProcess(c, dir, k)) : c \in s1}
        s3 == {Then(c, JSONProcess(c, dir, k)) : c \in s2}
        s4 == {Then(c, LogProcess(c, dir, k)) : c \in s3}
        s5 == {Then(c, RawMetricsProcess(c, dir, k)) : c \in s4}
    IN  CHOOSE c \in s5 : TRUE

\* Variant of the loop without the emptiness check.
SkipsNoDirectory(inner_dir_info) == FALSE
\* `if not inner_dir_info: continue`
SkipsDirectory(inner_dir_info) == inner_dir_info = <<>>

\* Variant of the selection that takes the last child entry.
last_entry(inner_dir_info) == inner_dir_info[Len(inner_dir_info)]
\* inner_dir_info = inner_dir_info[0]
first_entry(inner_dir_info) == inner_dir_info[1]

\* The body of the loop of combine_results for item directory k: skipped when
\* its listing is empty, else its first child entry is processed.
VisitDirectory(cs0, inner_dir_info, k) ==
    IF SkipsDirectory(inner_dir_info) THEN cs0
    ELSE IF inner_dir_info = <<>> THEN [cs0 EXCEPT !.err = "IndexError"]
    ELSE ProcessItem(cs0, first_entry(inner_dir_info), k)

\* dataframe.to_csv(output_path, index=False): the header once, then the rows.
to_csv(df) == [header |-> df.columns, rows |-> df.rows]

\* ResultCombiner._write_combined_csv
write_combined_csv(tree, dfs) ==
    [tree EXCEPT !.csv = [f \in (DOMAIN tree.csv) \cup (DOMAIN dfs) |->
                             IF f \in DOMAIN dfs THEN to_csv(dfs[f]) ELSE tree.csv[f]]]

\* ResultCombiner._write_combined_json
write_combined_json(tree, js) ==
    [tree EXCEPT !.json = [f \in (DOMAIN tree.json) \cup (DOMAIN js) |->
                              IF f \in DOMAIN js THEN js[f] ELSE tree.json[f]]]

\* hdfs.get_file_info(FileSelector(root)): the item directories that exist,
\* in listing order.
ListRoot(st) == SelectSeq([k \in 1..MaxItems |-> k], LAMBDA k : st[k].exists)


(* ------------------- paths and the worker command (main.py) ----------- *)
\* A path: the components of its directory (a leading "hdfs://nn" component is
\* the scheme and authority) and its last component.
Path(dir, name) == [dir |-> dir, name |-> name]
parent_depth(p) == Len(p.dir)
basename(p) == p.name

NameNode == "hdfs://nn"
\* The root handed to _create_run_jar_map_func(hdfs_base_dir) and to
\* ResultCombiner(executor_output_dir): the cache directory, the name of the
\* output folder and the executor output directory, on the name node.
hdfs_base_dir == <<NameNode, "cache", "output", "executor_output">>
SparkFilesRoot == <<"spark-files">>

\* SparkFiles.get(name): the worker-local copy of a staged file.
SparkFilesGet(name) == Path(SparkFilesRoot, name)

\* One element of an argument vector: a flag or word, with the paths it holds.
Arg(tag, paths) == [tag |-> tag, paths |-> paths]
LogConfigFlag(p) == Arg("-Dlog4j.configuration", <<p>>)
IsLogConfigFlag(a) == a.tag = "-Dlog4j.configuration"

\* ToolSubmissionCommand as the caller builds it: jvm_args holds one
\* log-configuration flag among other options; extra_rapids_args ends with the
\* event-log path; jvm_log_file and dependencies_paths are derived fields.
MaxJvmArgs == 3
MaxToolArgs == 2
MaxDeps == 2
JvmLogFile == Path(<<"work">>, 1)
EventLogsPath == Path(<<NameNode>>, 0)
OtherJvmArgs == {Arg("-Xmx", <<>>)}
ToolOptions == {Arg("--opt-a", <<>>), Arg("--opt-b", <<>>)}
SeqsUpTo(S, n) == UNION {[1..k -> S] : k \in 0..n}
SubmissionCommands ==
    {[jvm_args |-> j,
      jvm_log_file |-> JvmLogFile,
      dependencies_paths |-> [k \in 1..d |-> Path(<<"work", "deps">>, k)],
      extra_rapids_args |-> Append(a, Arg("eventlogs", <<EventLogsPath>>))] :
        j \in {x \in SeqsUpTo(OtherJvmArgs \cup {LogConfigFlag(JvmLogFile)},
                               MaxJvmArgs) :
                  Cardinality({k \in DOMAIN x : IsLogConfigFlag(x[k])}) = 1},
        d \in 0..MaxDeps,
        a \in SeqsUpTo(ToolOptions, MaxToolArgs)}

\* DistributedJarExecutor.__post_init__: rapids_args = extra_rapids_args[:-1].
rapids_args(cmd) ==
    SubSeq(cmd.extra_rapids_args, 1, Len(cmd.extra_rapids_args) - 1)

\* The event log of item i and its output directory under the root
\* (run_jar_command: os.path.join(hdfs_base_dir, os.path.basename(file_path))).
EventLog(i) == Path(<<NameNode, "eventlogs">>, i)
executor_output_dir(file_path) == Path(hdfs_base_dir, basename(file_path))

\* next(i for i, arg in enumerate(jvm_args) if "-Dlog4j.configuration" in arg)
jvm_log_file_index(args) ==
    CHOOSE k \in DOMAIN args :
        /\ IsLogConfigFlag(args[k])
        /\ \A m \in 1..(k - 1) : ~IsLogConfigFlag(args[m])

\* _get_jar_command(file_path, executor_output_dir): the argument vector, and
\* jvm_args as the in-place assignment to jvm_args[index] leaves it.
ToolArgsFirst(tool, own) == tool \o own
ToolArgsLast(tool, own) == own \o tool
get_jar_command(cmd, file_path, out_dir) ==
    LET local_deps_path == [k \in DOMAIN cmd.dependencies_paths |->
                               SparkFilesGet(basename(cmd.dependencies_paths[k]))]
        jars == Arg("classpath",
                    Append(local_deps_path, Path(<<"SPARK_HOME", "jars">>, 0)))
        java_exec == Arg("JAVA_HOME/bin/java", <<>>)
        local_jvm_log_file == SparkFilesGet(basename(cmd.jvm_log_file))
        rewritten == [cmd.jvm_args EXCEPT ![jvm_log_file_index(cmd.jvm_args)] =
                         LogConfigFlag(local_jvm_log_file)]
        tool_args == <<Arg("--output-directory", <<>>), Arg("path", <<out_dir>>),
                       Arg("path", <<file_path>>)>>
    IN  [jvm_args |-> rewritten,
         command |-> <<java_exec>> \o rewritten
                       \o <<Arg("-cp", <<>>), jars, Arg("jar_main_class", <<>>)>>
                       \o ToolArgsLast(tool_args, rapids_args(cmd))]


(* ------------------- input listing (hdfs_manager.py) ------------------ *)
\* The event-log directory as the caller names it (an hdfs:// URI or a bare
\* path) and what the file system holds there: entry k is a regular file or a
\* subdirectory, which may hold a file of its own.
MaxEntries == 3
EventLogDirPath == <<"eventlogs">>
GivenDirectories == {<<NameNode>> \o EventLogDirPath, EventLogDirPath}
EntryKinds ==
    {[type |-> "File", nested |-> FALSE], [type |-> "Directory", nested |-> FALSE],
     [type |-> "Directory", nested |-> TRUE]}
Directories ==
    {[given |-> g, entries |-> e] :
        g \in GivenDirectories, e \in SeqsUpTo(EntryKinds, MaxEntries)}

\* extract_directory: urlparse(directory).path for an hdfs:// URI, else the
\* argument itself.
startswith_hdfs(dir) == dir # <<>> /\ Head(dir) = NameNode
extract_directory(dir) == IF startswith_hdfs(dir) THEN Tail(dir) ELSE dir

\* input_fs.get_file_info(FileSelector(directory_path, recursive)): a FileInfo
\* per direct child, and per file below it when recursive.
FileInfo(p, type) == [path |-> p, type |-> type]
RECURSIVE get_file_info(_, _, _, _)
get_file_info(entries, directory_path, recursive, k) ==
    IF k > Len(entries) THEN <<>>
    ELSE <<FileInfo(Path(directory_path, k), entries[k].type)>>
         \o (IF recursive /\ entries[k].nested
               THEN <<FileInfo(Path(Append(directory_path, "sub"), k), "File")>>
             ELSE <<>>)
         \o get_file_info(entries, directory_path, recursive, k + 1)

\* f"{hdfs_nn_addr}{file_info.path}"
WithNameNode(p) == Path(<<NameNode>> \o p.dir, p.name)

IsAnyEntry(info) == TRUE
IsRegularFile(info) == info.type = "File"

\* InputFsManager.get_files_from_path(directory)
files_from_path(d) ==
    LET directory_path == extract_directory(d.given)
        file_infos == get_file_info(d.entries, directory_path, FALSE, 1)
        kept == SelectSeq(file_infos, IsRegularFile)
    IN  [k \in DOMAIN kept |-> WithNameNode(kept[k].path)]

\* State of the variables of a component that is not driven.
IdleCommand ==
    /\ submission_cmd = [jvm_args |-> <<>>, jvm_log_file |-> JvmLogFile,
                         dependencies_paths |-> <<>>, extra_rapids_args |-> <<>>]
    /\ jar_command = <<>>
IdleListing ==
    /\ directory = [given |-> <<>>, entries |-> <<>>]
    /\ file_list = <<>>
    /\ output_dirs = <<>>


\* SPARK_HOME, HADOOP_HOME, JAVA_HOME: module constants of main.py; HdfsManager
\* reads HADOOP_HOME into its hadoop_home field.
EnvVars == {"SPARK_HOME", "HADOOP_HOME", "JAVA_HOME"}
RequiredEnvWithoutJava == {"SPARK_HOME", "HADOOP_HOME"}
RequiredEnv == {"SPARK_HOME", "HADOOP_HOME", "JAVA_HOME"}

(* ------------------------------ initial states ------------------------ *)
NoResult == [logs |-> <<>>, result |-> 0]

\* No processor has run yet.
NoSnapshot == [dfs |-> EmptyMap, json |-> EmptyMap, tree |-> EmptyTree]

\* The run log in the output folder before a dispatch: none, or the one an
\* earlier dispatch of the last event log wrote there.
NoRunLog == [written |-> FALSE, lines |-> <<>>]
EarlierRunLog ==
    [written |-> TRUE,
     lines |-> write_output(
                 <<run_jar_map_func(MaxItems,
                      [kind |-> "exit", code |-> 0, out |-> "", errout |-> ""]).logs>>)]
RunLogsBefore == {NoRunLog, EarlierRunLog}

\* The variables of the components nothing has been called on yet.
InitUntouched ==
    /\ err = ""
    /\ input_list_rdd = <<>>
    /\ taskState = [i \in Items |-> "none"]
    /\ map_fn_result = [i \in Items |-> NoResult]
    /\ started = [i \in Items |-> 0]
    /\ childOf = [i \in Items |-> NoChild]
    /\ manifestWrites = 0
    /\ result = <<>>
    /\ directories = <<>>
    /\ dirIdx = 0
    /\ combined_dataframes = EmptyMap
    /\ combined_json_data = EmptyMap
    /\ combinedTree = EmptyTree
    /\ procTrace = <<>>
    /\ invocation = 0
    /\ instanceUses = 0
    /\ firstTree = EmptyTree
    /\ hdfsCombinedFile = 0
    /\ sparkStopped = FALSE
    /\ rootSetup = [rm |-> "none", mkdir |-> "none"]
    /\ phaseLog = <<>>
    /\ stagedFiles = {}
    /\ onceState = NoSnapshot

\* No input list has been handed to a dispatcher and no SparkContext exists.
InitCommon ==
    /\ InitUntouched
    /\ manifest = NoRunLog
    /\ input_list = <<>>
    /\ task_max_failures = 1

\* What an earlier run can have left under the root: nothing, or the complete
\* output directory of the last event log.
StaleShape ==
    [kind |-> "output", props |-> TRUE, csvs |-> Range(CsvNames), json |-> "list",
     raw |-> TRUE]
PreviousRoots ==
    {[i \in Items |-> AbsentDir],
     [i \in Items |-> IF i = MaxItems THEN ItemDir(i, StaleShape) ELSE AbsentDir]}

\* The submission command of a run: the log-configuration flag, MaxDeps
\* dependencies and the event-log path.
RunCommand ==
    [jvm_args |-> <<LogConfigFlag(JvmLogFile)>>,
     jvm_log_file |-> JvmLogFile,
     dependencies_paths |-> [k \in 1..MaxDeps |-> Path(<<"work", "deps">>, k)],
     extra_rapids_args |-> <<Arg("eventlogs", <<EventLogsPath>>)>>]

\* The process environment when main.py and hdfs_manager.py are imported, and
\* a DistributedJarExecutor about to be constructed on any submission command.
Init ==
    /\ InitCommon
    /\ pc = "construct"
    /\ storage \in PreviousRoots
    /\ env \in [EnvVars -> BOOLEAN]
    /\ submission_cmd \in SubmissionCommands
    /\ jar_command = <<>>
    /\ IdleListing

\* A ResultCombiner just constructed over a root holding any item directories.
InitCombine ==
    /\ InitCommon
    /\ pc = "combine_results"
    /\ \E shape \in [Items -> CombineShapes] :
         storage = [i \in Items |-> ItemDir(i, shape[i])]
    /\ env = [v \in EnvVars |-> TRUE]
    /\ IdleCommand
    /\ IdleListing

\* A DistributedJarExecutor holding any submission command, before it has
\* built an argument vector.
InitCommand ==
    /\ InitCommon
    /\ pc = "command"
    /\ storage = [i \in Items |-> AbsentDir]
    /\ env = [v \in EnvVars |-> TRUE]
    /\ submission_cmd \in SubmissionCommands
    /\ jar_command = <<>>
    /\ IdleListing

\* A DistributedJarExecutor holding the submission command of a run, whose
\* run_jar_map_func is about to be applied to any items.
InitWorker ==
    /\ InitCommon
    /\ pc = "worker"
    /\ storage = [i \in Items |-> AbsentDir]
    /\ env = [v \in EnvVars |-> TRUE]
    /\ submission_cmd = RunCommand
    /\ jar_command = <<>>
    /\ IdleListing

\* An InputFsManager about to list any event-log directory.
InitListing ==
    /\ InitCommon
    /\ pc = "listing"
    /\ storage = [i \in Items |-> AbsentDir]
    /\ env = [v \in EnvVars |-> TRUE]
    /\ IdleCommand
    /\ directory \in Directories
    /\ file_list = <<>>
    /\ output_dirs = <<>>

\* The lists get_files_from_path can return: event logs of one directory,
\* pairwise distinct, in listing order; none when the directory has no file.
InputLists ==
    {l \in SeqsUpTo(Items, MaxItems) : \A n, m \in DOMAIN l : n < m => l[n] < l[m]}

\* A SparkJobManager about to be constructed with the dependencies and the
\* log-configuration file of the submission command of a run, on a cluster
\* with any spark.task.maxFailures, and the input list its submit_map_job is
\* then called on with the map function of an executor over an empty root.
InitDispatch ==
    /\ InitUntouched
    /\ pc = "stage"
    /\ manifest \in RunLogsBefore
    /\ input_list \in InputLists
    /\ task_max_failures \in 1..MaxAttempts
    /\ storage = [i \in Items |-> AbsentDir]
    /\ env = [v \in EnvVars |-> TRUE]
    /\ submission_cmd = RunCommand
    /\ jar_command = <<>>
    /\ IdleListing

\* A ResultCombiner just constructed over the root the event logs of
\* input_list were dispatched on: each of them has the directory its task
\* left, and the directory of an event log that was not dispatched is absent
\* or is the complete one an earlier dispatch left there.
InitLingering ==
    /\ InitUntouched
    /\ manifest = NoRunLog
    /\ pc = "combine_results"
    /\ input_list \in InputLists \ {<<>>}
    /\ task_max_failures = 1
    /\ \E shape \in [Items -> RunShapes] :
         /\ \A i \in Items \ Range(input_list) :
               shape[i] \in {[kind |-> "absent"], StaleShape}
         /\ storage = [i \in Items |-> ItemDir(i, shape[i])]
    /\ env = [v \in EnvVars |-> TRUE]
    /\ IdleCommand
    /\ IdleListing

(* ------------------------------ coordinator --------------------------- *)
Raise(e) == pc' = "raised" /\ err' = e

\* Entries of phaseLog: a step of run_tool_as_spark_app was entered / left.
Started(step) == <<step, "start">>
Finished(step) == <<step, "end">>

\* DistributedJarExecutor.__post_init__: the three asserts on the module
\* constants read from the environment.
NewDistributedJarExecutor ==
    /\ pc = "construct"
    /\ IF \A v \in RequiredEnv : env[v]
         THEN pc' = "hdfs_manager" /\ err' = err
       ELSE Raise("AssertionError: home not set")
    /\ UNCHANGED <<dispatchVars, storage, combineVars, sparkStopped,
                   rootSetup, phaseLog, toolVars>>

\* The attributes of the class Utilities (utils.py).
Utilities ==
    {"_DISTRIBUTED_TOOLS_CACHE_DIR", "_EXECUTOR_OUTPUT_DIR_NAME", "_SPARK_CONTEXT",
     "run_cmd", "check_cmd_availability", "get_executor_output_path"}

\* HdfsManager(...).__post_init__, first statement of run_tool_as_spark_app:
\* the check of hadoop_home, `hdfs getconf` for the name node address (a
\* failing command raises), then the base directory is joined from
\* Utilities.get_cache_dir() and Utilities.get_executor_output_dir_name().
NewHdfsManager ==
    /\ pc = "hdfs_manager"
    /\ IF ~env["HADOOP_HOME"]
         THEN Raise("ValueError: HADOOP_HOME")
       ELSE \E getconfOk \in BOOLEAN :
              IF ~getconfOk
                THEN Raise("RuntimeError: hdfs getconf")
              ELSE IF "get_cache_dir" \notin Utilities
                THEN Raise("AttributeError: Utilities.get_cache_dir")
              ELSE IF "get_executor_output_dir_name" \notin Utilities
                THEN Raise("AttributeError: Utilities.get_executor_output_dir_name")
              ELSE pc' = "prepare" /\ err' = err
    /\ UNCHANGED <<dispatchVars, storage, combineVars, sparkStopped,
                   rootSetup, phaseLog, toolVars>>


\* Variant of the staging that leaves out the log-configuration file.
add_files_without_log_file(cmd) == cmd.dependencies_paths
\* SparkJobManager._add_files_to_spark_context: the paths handed to addFile,
\* in order.
add_files_to_spark_context(cmd) == cmd.dependencies_paths \o <<cmd.jvm_log_file>>

\* SparkJobManager(...).__post_init__: spark-submit is looked up (an exception
\* when it is not available), the context is created and the files are staged
\* one by one; an addFile that fails leaves the earlier ones staged.
NewSparkJobManager ==
    /\ pc = "stage"
    /\ \E available \in BOOLEAN :
         IF ~available
           THEN Raise("Exception: spark-submit") /\ stagedFiles' = stagedFiles
         ELSE LET files == add_files_to_spark_context(submission_cmd)
              IN  \E added \in 0..Len(files) :
                     /\ stagedFiles' = stagedFiles \cup Range(SubSeq(files, 1, added))
                     /\ IF added < Len(files)
                          THEN Raise("Py4JJavaError: addFile")
                        ELSE pc' = "submit" /\ err' = err
    /\ UNCHANGED <<dispatchVars, storage, combineVars, sparkStopped,
                   rootSetup, phaseLog, env, commandVars, listingVars,
                   processorVars>>

(* ------------------------------ dispatch ------------------------------ *)
\* num_partitions = len(input_list)
num_partitions(input) == Len(input)

\* SparkContext.parallelize(c, numSlices): slice p holds the elements from
\* position (p-1)*len/numSlices up to p*len/numSlices.
parallelize(c, numSlices) ==
    [p \in 1..numSlices |->
        SubSeq(c, ((p - 1) * Len(c)) \div numSlices + 1, (p * Len(c)) \div numSlices)]

\* What SparkContext.parallelize(c, numSlices) can do: return the RDD, and for
\* numSlices = 0, which this code neither excludes nor handles, either raise
\* on the division of len(c) by numSlices or return an RDD without partition.
\* A context that has been stopped has no JVM context left to make an RDD
\* with: the call raises.
parallelize_outcomes(numSlices) ==
    IF numSlices = 0 THEN {"raises", "returns"} ELSE {"returns"}
parallelize_errors(numSlices, stopped) ==
    (IF "raises" \in parallelize_outcomes(numSlices)
       THEN {"ZeroDivisionError"} ELSE {})
    \cup (IF stopped THEN {"Py4JError: stopped SparkContext"} ELSE {})

\* SparkJobManager._convert_input_to_rdd, first statement of submit_map_job:
\* parallelize(input_list, numSlices=len(input_list)).
convert_input_to_rdd ==
    /\ pc = "submit"
    /\ \E outcome \in (IF sparkStopped THEN {"raises"}
                       ELSE parallelize_outcomes(num_partitions(input_list))) :
         IF outcome = "raises"
           THEN /\ \E e \in parallelize_errors(num_partitions(input_list),
                                               sparkStopped) : Raise(e)
                /\ UNCHANGED <<input_list_rdd, taskState>>
         ELSE /\ input_list_rdd' = parallelize(input_list, num_partitions(input_list))
              /\ taskState' = [i \in Items |->
                                 IF \E p \in DOMAIN input_list_rdd' :
                                       i \in Range(input_list_rdd'[p])
                                   THEN "pending" ELSE "none"]
              /\ pc' = "map"
              /\ err' = err
    /\ phaseLog' = Append(phaseLog, Started("dispatch"))
    /\ UNCHANGED <<task_max_failures, input_list, map_fn_result, started, childOf,
                   storage, manifest, manifestWrites, result, combineVars,
                   sparkStopped, rootSetup, toolVars>>

\* A task of input_list_rdd.map(map_func) is scheduled on an executor, for
\* the first time or again: run_jar_map_func starts on item i and launches
\* the child process.
StartTask(i) ==
    /\ pc = "map"
    /\ taskState[i] = "pending"
    /\ taskState' = [taskState EXCEPT ![i] = "running"]
    /\ started' = [started EXCEPT ![i] = @ + 1]
    /\ UNCHANGED <<task_max_failures, pc, err, input_list, input_list_rdd,
                   map_fn_result, childOf, storage, manifest, manifestWrites,
                   result, combineVars, sparkStopped, rootSetup, phaseLog,
                   toolVars>>

\* The task of item i ends: the child process has its outcome and
\* run_jar_map_func returns or raises. The task runs on the executor's copy of
\* the pickled closure; the objects of the driver are not touched. The tool
\* leaves directory dirw under the root unless it could not be launched or
\* wrote nothing: the root then keeps what it held for the item.
RunTask(i) ==
    /\ pc = "map"
    /\ taskState[i] = "running"
    /\ \E child \in RunOutcomes, shape \in TaskShapes :
         LET r == run_jar_map_func(i, child)
             dirw == ItemDir(i, shape)
         IN  /\ child.kind = "oserror" => shape.kind = "absent"
             /\ childOf' = [childOf EXCEPT ![i] = child]
             /\ storage' = [storage EXCEPT ![i] =
                              IF child.kind = "oserror" \/ shape.kind = "absent"
                                THEN @ ELSE dirw]
             /\ taskState' = [taskState EXCEPT ![i] =
                                IF r.raised THEN "raised" ELSE "done"]
             /\ map_fn_result' = [map_fn_result EXCEPT ![i] =
                                    IF r.raised THEN @
                                    ELSE [logs |-> r.logs, result |-> r.result]]
    /\ UNCHANGED <<task_max_failures, pc, err, input_list, input_list_rdd,
                   started, manifest, manifestWrites, result, combineVars,
                   sparkStopped, rootSetup, phaseLog, toolVars>>

\* A task that raised is scheduled again while it has failed fewer than
\* spark.task.maxFailures times: _initialize_spark_context sets nothing
\* against it and the value comes with the master the caller names.
RetryTask(i) ==
    /\ pc = "map"
    /\ taskState[i] = "raised"
    /\ started[i] < task_max_failures
    /\ taskState' = [taskState EXCEPT ![i] = "pending"]
    /\ UNCHANGED <<task_max_failures, pc, err, input_list, input_list_rdd,
                   map_fn_result, started, childOf, storage, manifest,
                   manifestWrites, result, combineVars, sparkStopped, rootSetup,
                   phaseLog, toolVars>>

\* A task raised spark.task.maxFailures times: the job is aborted and
\* collect() raises in the driver; submit_map_job logs the error and re-raises.
TaskFailureAbortsJob ==
    /\ pc = "map"
    /\ \E i \in Items : taskState[i] = "raised" /\ started[i] >= task_max_failures
    /\ Raise("Py4JJavaError: task failed")
    /\ UNCHANGED <<dispatchVars, storage, combineVars, sparkStopped,
                   rootSetup, phaseLog, toolVars>>

\* The parallel-map primitive itself fails (cluster unreachable).
ClusterFails ==
    /\ pc = "map"
    /\ Raise("Py4JJavaError: cluster")
    /\ UNCHANGED <<dispatchVars, storage, combineVars, sparkStopped,
                   rootSetup, phaseLog, toolVars>>

\* collect() returns once every partition's task has returned its element.
SomeTaskReturned == \E i \in Range(input_list) : taskState[i] = "done"
AllTasksReturned == \A i \in Range(input_list) : taskState[i] = "done"

\* Variant of the unpacking that accepts a result without elements.
unpack_never_raises(res) == FALSE
\* logs_arr_list, result = zip(*map_fn_result): the unpacking into two names
\* raises when the map returned no element.
unpack_raises(res) == res = <<>>

\* Some but not all the characters of a line.
PartialLine == Line("partial", 0)

\* The strings that are a proper prefix of text: its first n lines, followed
\* by the next line whole, by a part of it, or by none of its characters.
ProperPrefixes(text) ==
    {SubSeq(text, 1, n) \o <<EmptyLine>> : n \in 0..(Len(text) - 1)}
    \cup {SubSeq(text, 1, n) \o <<PartialLine>> :
             n \in {m \in 0..(Len(text) - 1) : text[m + 1] # EmptyLine}}
    \cup {SubSeq(text, 1, n) : n \in 1..(Len(text) - 1)}

\* with open(log_file_path, "w") as f: f.write(output_str), under one except
\* IOError that logs and re-raises: the file is written; or open raises and
\* the file is as it was; or open has created or emptied the file and the
\* write or the close raises, the file holding what was stored until then.
write_outcomes == {"written", "open_raises", "write_raises"}

\* The rest of submit_map_job once every task returned: collect, zip, write
\* the run log and return the results; an exception of the zip or of the
\* write is logged and re-raised.
CollectAndWrite ==
    /\ pc = "map"
    /\ AllTasksReturned
    /\ IF unpack_raises(Collected)
         THEN /\ Raise("ValueError: not enough values to unpack")
              /\ UNCHANGED <<manifest, manifestWrites, result, phaseLog>>
       ELSE \E outcome \in write_outcomes :
              CASE outcome = "written" ->
                     /\ manifest' = [written |-> TRUE,
                                     lines |-> write_output(UnzipLogs(Collected))]
                     /\ manifestWrites' = manifestWrites + 1
                     /\ result' = UnzipResult(Collected)
                     /\ pc' = "dispatched"
                     /\ err' = err
                     /\ phaseLog' = Append(phaseLog, Finished("dispatch"))
                [] outcome = "open_raises" ->
                     /\ Raise("IOError: run log")
                     /\ UNCHANGED <<manifest, manifestWrites, result, phaseLog>>
                [] outcome = "write_raises" ->
                     /\ Raise("IOError: run log")
                     /\ \E kept \in ProperPrefixes(write_output(UnzipLogs(Collected))) :
                           /\ Len(kept) <= MaxStoredLines
                           /\ manifest' = [written |-> TRUE, lines |-> kept]
                     /\ manifestWrites' = manifestWrites + 1
                     /\ UNCHANGED <<result, phaseLog>>
    /\ UNCHANGED <<task_max_failures, input_list, input_list_rdd, taskState,
                   map_fn_result, started, childOf, storage, combineVars,
                   sparkStopped, rootSetup, toolVars>>

\* A SparkJobManager is there to call: its construction returned, and
\* submit_map_job is not running on it.
SubmitMapJobCalled == Started("dispatch") \in Range(phaseLog)
HasSparkJobManager ==
    \/ pc \in {"submit", "dispatched"}
    \/ pc = "raised" /\ SubmitMapJobCalled

\* SparkJobManager.cleanup: stop() on the SparkContext of the class, before
\* submit_map_job is called or after it returned or raised.
cleanup ==
    /\ HasSparkJobManager
    /\ sparkStopped' = TRUE
    /\ UNCHANGED <<pc, err, dispatchVars, storage, combineVars, rootSetup,
                   phaseLog, toolVars>>

(* ------------------------------ combine ------------------------------- *)
\* ResultCombiner(...): fresh accumulators; the combined directory is created
\* if missing and kept if it exists.
NewResultCombiner(at) ==
    /\ pc = at
    /\ invocation < MaxCombines
    /\ combined_dataframes' = EmptyMap
    /\ combined_json_data' = EmptyMap
    /\ instanceUses' = 0
    /\ pc' = "combine_results"
    /\ UNCHANGED <<err, dispatchVars, storage, directories, dirIdx, combinedTree,
                   procTrace, invocation, firstTree, hdfsCombinedFile, sparkStopped,
                   rootSetup, phaseLog, toolVars>>

\* combine_results up to the loop: lists the root.
StartCombine ==
    /\ pc = "combine_results"
    /\ directories' = ListRoot(storage)
    /\ dirIdx' = 0
    /\ procTrace' = <<>>
    /\ invocation' = invocation + 1
    /\ instanceUses' = instanceUses + 1
    /\ pc' = "visit"
    /\ phaseLog' = Append(phaseLog, Started("combine"))
    /\ UNCHANGED <<err, dispatchVars, storage, combined_dataframes,
                   combined_json_data, combinedTree, firstTree, hdfsCombinedFile,
                   sparkStopped,
                   rootSetup, toolVars>>

\* One iteration of the loop of combine_results.
VisitItem ==
    /\ pc = "visit"
    /\ dirIdx < Len(directories)
    /\ \E k \in {directories[dirIdx + 1]} :
       \E cs \in {VisitDirectory(CombinerState(combined_dataframes,
                                               combined_json_data,
                                               combinedTree, hdfsCombinedFile,
                                               procTrace),
                                 storage[k].entries, k)} :
           /\ combined_dataframes' = cs.dfs
           /\ combined_json_data' = cs.json
           /\ combinedTree' = cs.tree
           /\ hdfsCombinedFile' = cs.hdfs_file
           /\ procTrace' = cs.trace
           /\ IF cs.err # "" THEN Raise(cs.err) ELSE UNCHANGED <<pc, err>>
    /\ dirIdx' = dirIdx + 1
    /\ UNCHANGED <<dispatchVars, storage, directories, invocation, instanceUses,
                   firstTree, sparkStopped,
                   rootSetup, phaseLog, toolVars>>

\* The end of combine_results: the accumulators are written to the tree.
WriteCombined ==
    /\ pc = "visit"
    /\ dirIdx = Len(directories)
    /\ combinedTree' = write_combined_json(
                          write_combined_csv(combinedTree, combined_dataframes),
                          combined_json_data)
    /\ firstTree' = IF invocation = 1 THEN combinedTree' ELSE firstTree
    /\ pc' = "combined"
    /\ phaseLog' = Append(phaseLog, Finished("combine"))
    /\ UNCHANGED <<err, dispatchVars, storage, directories, dirIdx,
                   combined_dataframes, combined_json_data, procTrace,
                   invocation, instanceUses, hdfsCombinedFile, sparkStopped, rootSetup,
                   toolVars>>

\* combine_results is invoked again on the same ResultCombiner.
CombineAgain ==
    /\ pc = "combined"
    /\ invocation < MaxCombines
    /\ pc' = "combine_results"
    /\ UNCHANGED <<err, dispatchVars, storage, combineVars, sparkStopped,
                   rootSetup, phaseLog, toolVars>>

(* ------------------------------ harnesses ----------------------------- *)
\* run_jar_command builds the argument vector for item i on this executor:
\* _get_jar_command also assigns into submission_cmd.jvm_args.
BuildJarCommand(i) ==
    /\ pc = "command"
    /\ LET file_path == EventLog(i)
           built == get_jar_command(submission_cmd, file_path,
                                    executor_output_dir(file_path))
       IN  /\ jar_command' = built.command
           /\ submission_cmd' = [submission_cmd EXCEPT !.jvm_args = built.jvm_args]
    /\ UNCHANGED <<pc, err, dispatchVars, storage, combineVars, sparkStopped,
                   rootSetup, phaseLog, env, listingVars, stagedFiles,
                   processorVars>>

\* run_jar_map_func(file_path) on item i with any outcome of its child
\* process: _get_jar_command builds the argument vector (assigning into
\* submission_cmd.jvm_args), _submit_jar_cmd runs it. map_fn_result keeps the
\* log list as the function leaves it, also when it raises instead of
\* returning it.
RunJarMapFunc(i) ==
    /\ pc = "worker"
    /\ taskState[i] = "none"
    /\ LET file_path == EventLog(i)
           built == get_jar_command(submission_cmd, file_path,
                                    executor_output_dir(file_path))
       IN  /\ jar_command' = built.command
           /\ submission_cmd' = [submission_cmd EXCEPT !.jvm_args = built.jvm_args]
    /\ \E child \in ChildOutcomes :
         LET r == run_jar_map_func(i, child)
         IN  /\ childOf' = [childOf EXCEPT ![i] = child]
             /\ started' = [started EXCEPT ![i] = @ + 1]
             /\ taskState' = [taskState EXCEPT ![i] =
                                IF r.raised THEN "raised" ELSE "done"]
             /\ map_fn_result' = [map_fn_result EXCEPT ![i] =
                                    [logs |-> r.logs, result |-> r.result]]
    /\ UNCHANGED <<task_max_failures, pc, err, input_list, input_list_rdd,
                   storage, manifest, manifestWrites, result, combineVars,
                   sparkStopped, rootSetup, phaseLog, env, listingVars,
                   stagedFiles, processorVars>>

\* get_files_from_path(directory): `hdfs getconf` for the name node address
\* (a failing command raises), then the listing.
ListEventLogs ==
    /\ pc = "listing"
    /\ \E getconfOk \in BOOLEAN :
         IF ~getconfOk
           THEN Raise("RuntimeError: hdfs getconf") /\ file_list' = file_list
         ELSE /\ file_list' = files_from_path(directory)
              /\ pc' = "listed"
              /\ err' = err
    /\ UNCHANGED <<dispatchVars, storage, combineVars, sparkStopped,
                   rootSetup, phaseLog, env, commandVars, directory, output_dirs,
                   stagedFiles, processorVars>>

\* run_jar_command derives the output directory of every listed file.
AssignOutputDirs ==
    /\ pc = "listed"
    /\ output_dirs' = [k \in DOMAIN file_list |-> executor_output_dir(file_list[k])]
    /\ pc' = "assigned"
    /\ UNCHANGED <<err, dispatchVars, storage, combineVars, sparkStopped,
                   rootSetup, phaseLog, env, commandVars, directory, file_list,
                   stagedFiles, processorVars>>

(* ------------------------------ specifications ------------------------ *)
\* run_tool_as_spark_app on a DistributedJarExecutor: its construction and the
\* statements of the function that are reached.
Next ==
    \/ NewDistributedJarExecutor
    \/ NewHdfsManager

Spec == Init /\ [][Next]_vars

\* The same with a coordinator that keeps running: a run goes on until
\* run_tool_as_spark_app returns or raises.
SpecRun == Init /\ [][Next]_vars /\ WF_vars(Next)

\* A SparkJobManager driven directly: constructed, then submit_map_job on
\* the map function of the executor and the input list.
NextDispatch ==
    \/ NewSparkJobManager
    \/ convert_input_to_rdd
    \/ \E i \in Items : StartTask(i)
    \/ \E i \in Items : RunTask(i)
    \/ \E i \in Items : RetryTask(i)
    \/ TaskFailureAbortsJob
    \/ ClusterFails
    \/ CollectAndWrite
    \/ cleanup

SpecDispatch == InitDispatch /\ [][NextDispatch]_vars

\* The steps of submit_map_job and of the scheduler. A child process may run
\* forever (subprocess.run has no timeout), so RunTask is not among them;
\* nothing makes the cluster fail, and nothing makes the caller stop the
\* context.
DispatchProgress ==
    \/ NewSparkJobManager
    \/ convert_input_to_rdd
    \/ \E i \in Items : StartTask(i)
    \/ \E i \in Items : RetryTask(i)
    \/ TaskFailureAbortsJob
    \/ CollectAndWrite

\* The same with a driver and a scheduler that keep running.
SpecDispatchLive == InitDispatch /\ [][NextDispatch]_vars /\ WF_vars(DispatchProgress)

\* A ResultCombiner driven directly: combine_results, then again on the same
\* or on a new ResultCombiner over the unmodified root.
NextCombine ==
    \/ StartCombine
    \/ VisitItem
    \/ WriteCombined
    \/ CombineAgain
    \/ NewResultCombiner("combined")

SpecCombine == InitCombine /\ [][NextCombine]_vars

\* The same over the root of a dispatch that may hold a directory more.
SpecLingering == InitLingering /\ [][NextCombine]_vars

\* run_jar_map_func applied to every item with any child outcome.
NextWorker == \E i \in Items : RunJarMapFunc(i)

SpecWorker == InitWorker /\ [][NextWorker]_vars

\* _get_jar_command applied to any submission command and item, repeatedly.
NextCommand == \E i \in Items : BuildJarCommand(i)

SpecCommand == InitCommand /\ [][NextCommand]_vars

\* get_files_from_path applied to any directory, then the output directories.
NextListing ==
    \/ ListEventLogs
    \/ AssignOutputDirs

SpecListing == InitListing /\ [][NextListing]_vars

\* One processor driven directly: the five FileProcessor subclasses, each
\* constructed over the first child entry of an item directory and the
\* accumulators and combined tree of a new ResultCombiner.
Processors == {"props", "csv", "json", "log", "raw"}
process(p, cs, dir, k) ==
    CASE p = "props" -> RuntimePropertiesProcess(cs, dir, k)
      [] p = "csv"   -> CSVProcess(cs, dir, k)
      [] p = "json"  -> JSONProcess(cs, dir, k)
      [] p = "log"   -> LogProcess(cs, dir, k)
      [] p = "raw"   -> RawMetricsProcess(cs, dir, k)

\* A new ResultCombiner and the output directory of item 1, of any content.
InitProcessor ==
    /\ InitCommon
    /\ pc = "processor"
    /\ \E shape \in {s \in DirShapes : s.kind = "output"} :
         storage = [i \in Items |-> IF i = 1 THEN ItemDir(i, shape) ELSE AbsentDir]
    /\ env = [v \in EnvVars |-> TRUE]
    /\ IdleCommand
    /\ IdleListing

\* process() of processor p on the output directory of item 1, a first and a
\* second time; an exception it raises is kept in err.
RunProcessor(p) ==
    /\ pc = "processor"
    /\ Len(procTrace) < 2
    /\ procTrace # <<>> => procTrace[1][1] = p
    /\ LET cs == process(p, CombinerState(combined_dataframes, combined_json_data,
                                          combinedTree, hdfsCombinedFile, procTrace),
                         storage[1].entries[1], 1)
       IN  /\ combined_dataframes' = cs.dfs
           /\ combined_json_data' = cs.json
           /\ combinedTree' = cs.tree
           /\ hdfsCombinedFile' = cs.hdfs_file
           /\ procTrace' = cs.trace
           /\ err' = cs.err
           /\ onceState' = IF procTrace = <<>>
                              THEN [dfs |-> cs.dfs, json |-> cs.json, tree |-> cs.tree]
                            ELSE onceState
    /\ UNCHANGED <<pc, dispatchVars, storage, directories, dirIdx, invocation,
                   instanceUses, firstTree, sparkStopped, rootSetup, phaseLog,
                   env, commandVars, listingVars, stagedFiles>>

NextProcessor == \E p \in Processors : RunProcessor(p)

SpecProcessor == InitProcessor /\ [][NextProcessor]_vars


(* ====================================================================== *)
(* Properties                                                             *)
(* ====================================================================== *)
\* The lines of the log bundle run_jar_map_func returned for item i.
BundleLines(i) == Flatten(map_fn_result[i].logs)

RECURSIVE BlockStart(_, _)
\* Where the block of the k-th item of order starts in a text that holds the
\* bundles of order one after the other, one empty line between them.
BlockStart(order, k) ==
    IF k = 1 THEN 1
    ELSE BlockStart(order, k - 1) + Len(BundleLines(order[k - 1])) + 1

\* The run log is the bundles of the items of order, in that order, with one
\* empty line between consecutive bundles, followed by one last line.
ManifestHoldsBundlesOf(order) ==
    LET lines == manifest.lines
        n == Len(order)
    IN  /\ n > 0
        /\ Len(lines) = BlockStart(order, n + 1) - 1
        /\ \A k \in 1..n :
              /\ BundleLines(order[k]) # <<>>
              /\ SubSeq(lines, BlockStart(order, k),
                        BlockStart(order, k + 1) - 2) = BundleLines(order[k])
        /\ \A k \in 1..(n - 1) : lines[BlockStart(order, k + 1) - 1] = EmptyLine

\* The block of the k-th item of order in the run log.
ManifestBlock(order, k) ==
    SubSeq(manifest.lines, BlockStart(order, k), BlockStart(order, k + 1) - 2)

\* C1: when submit_map_job returns for a non-empty input list, it returns one
\* output directory per input item (each item exactly once), the run log holds
\* one log bundle per input item, and the k-th bundle and the k-th returned
\* directory belong to the same item.
C1_OneResultPerItem ==
    pc = "dispatched" =>
        /\ Len(input_list) > 0
        /\ Len(result) = Len(input_list)
        /\ \A i \in Range(input_list) :
              Cardinality({k \in 1..Len(result) : result[k] = i}) = 1
        /\ ManifestHoldsBundlesOf(result)
        /\ \A k \in 1..Len(result) :
              /\ ManifestBlock(result, k)[1] = Line("processing", result[k])
              /\ ManifestBlock(result, k)[2] = Line("outdir", result[k])

\* submit_map_job returned for a batch of two items or more, one of which failed.
C1_Witness ==
    /\ pc = "dispatched"
    /\ manifest.written
    /\ Len(input_list) >= 2
    /\ \E i \in Range(input_list) : childOf[i].code # 0

\* C2: whatever the child process does (exit code 0, non-zero exit code, or an
\* I/O error while launching or running it), run_jar_map_func returns its log
\* list and no task raises to the dispatcher.
C2_WorkerNeverRaises ==
    \A i \in Items : childOf[i].kind # "none" => taskState[i] = "done"

\* C3: the run log submit_map_job has written for a batch when it returns
\* holds a block for every item, and the block of an item whose subprocess
\* exited non-zero holds both the failure narration with its exit code and the
\* total-processing-time line.
C3_FailedItemInManifest ==
    pc = "dispatched" =>
        /\ ManifestHoldsBundlesOf(input_list)
        /\ \A k \in 1..Len(input_list) :
              LET i == input_list[k]
                  b == ManifestBlock(input_list, k)
              IN  /\ b[1] = Line("processing", i)
                  /\ childOf[i].code # 0 =>
                        /\ Line("failed", childOf[i].code) \in Range(b)
                        /\ b[Len(b)] = Line("time", 0)
                        /\ Line("succeeded", 0) \notin Range(b)

\* The run log of a batch with one failed and one successful item was written.
C3_Witness ==
    /\ pc = "dispatched"
    /\ manifest.written
    /\ \E i, j \in Range(input_list) :
          /\ childOf[i].kind = "exit" /\ childOf[i].code # 0
          /\ childOf[j].kind = "exit" /\ childOf[j].code = 0


\* The tool output directory combine_results reads for item k, if any.
HasOutput(k) == storage[k].exists /\ storage[k].entries # <<>>
OutputOf(k) == storage[k].entries[1]
\* The listed items whose directory is not empty, in visitation order.
Processed == SelectSeq(directories, HasOutput)
Malformed(k) ==
    HasOutput(k) /\ \E f \in DOMAIN OutputOf(k).json : ~OutputOf(k).json[f].isRecordList

\* C4: per-item subprocess failures never stop the combine: whatever item
\* directories the failed subprocesses left partially populated, empty or
\* absent, as long as no structured file is malformed, combine_results
\* completes without raising.
C4_FailuresNeverStopRun ==
    (\A k \in Items : ~Malformed(k)) => pc # "raised"

\* C5: an item directory that is absent or empty is skipped: no processor ever
\* runs for it, and the loop iteration that meets an empty directory raises
\* nothing and leaves the accumulators, the combined tree and the processor
\* trace as they were.
C5_SkipsMissingOrEmpty ==
    /\ [](\A n \in 1..Len(procTrace) : HasOutput(procTrace[n][2]))
    /\ [][ ( /\ pc = "visit"
             /\ dirIdx < Len(directories)
             /\ ~HasOutput(directories[dirIdx + 1]) )
           => ( /\ pc' = "visit"
                /\ err' = err
                /\ dirIdx' = dirIdx + 1
                /\ UNCHANGED <<combined_dataframes, combined_json_data,
                               combinedTree, hdfsCombinedFile, procTrace>> ) ]_vars

\* A combine finished over a root holding an empty item directory next to a
\* processed one.
C5_Witness ==
    /\ pc = "combined"
    /\ \E k \in Range(directories) : storage[k] = EmptyDir
    /\ procTrace # <<>>

\* C6: combine idempotence: after a second combine_results over the unmodified
\* item directories, on a new ResultCombiner or on the same one, the merged
\* tabular and structured files equal those left by the first.
C6_CombineIdempotent ==
    (pc = "combined" /\ invocation >= 2) =>
        /\ combinedTree.csv = firstTree.csv
        /\ combinedTree.json = firstTree.json

\* C7: runtime-properties first-writer-wins: the runtime-properties processor
\* runs for the first processed item only, and after combine_results the
\* runtime.properties of the combined tree is that of the first item visited.
C7_FirstWriterWins ==
    /\ \A n \in 1..Len(procTrace) :
          procTrace[n][1] = "props" => procTrace[n][2] = Processed[1]
    /\ (pc = "combined" /\ Processed # <<>>) =>
          combinedTree.props = OutputOf(Processed[1]).props

RECURSIVE ExpectedRows(_, _)
\* The rows of file f of the given items, item after item.
ExpectedRows(items, f) ==
    IF items = <<>> THEN <<>>
    ELSE (IF f \in DOMAIN OutputOf(Head(items)).csv
            THEN OutputOf(Head(items)).csv[f].rows ELSE <<>>)
         \o ExpectedRows(Tail(items), f)

\* C8: tabular merge: after combine_results on a ResultCombiner used once, the
\* combined tree holds a file for exactly the tabular filenames found in the
\* processed items; its header is the column row, once, and its rows are the
\* rows of the items holding that filename, in visitation order.
C8_TabularMerge ==
    (pc = "combined" /\ instanceUses = 1) =>
        \A f \in Range(CsvNames) :
            LET holders == SelectSeq(Processed, LAMBDA k : f \in DOMAIN OutputOf(k).csv)
            IN  IF holders = <<>> THEN f \notin DOMAIN combinedTree.csv
                ELSE /\ f \in DOMAIN combinedTree.csv
                     /\ combinedTree.csv[f].header = OutputOf(holders[1]).csv[f].columns
                     /\ combinedTree.csv[f].rows = ExpectedRows(Processed, f)

\* A combine finished in which two items hold the same tabular filename and a
\* filename is held by one item only.
C8_Witness ==
    /\ pc = "combined"
    /\ instanceUses = 1
    /\ \E f, g \in Range(CsvNames) :
          /\ Len(SelectSeq(Processed, LAMBDA k : f \in DOMAIN OutputOf(k).csv)) >= 2
          /\ Len(SelectSeq(Processed, LAMBDA k : g \in DOMAIN OutputOf(k).csv)) = 1

RECURSIVE ExpectedRecords(_, _)
\* The records of file f of the given items, item after item.
ExpectedRecords(items, f) ==
    IF items = <<>> THEN <<>>
    ELSE (IF f \in DOMAIN OutputOf(Head(items)).json
            THEN OutputOf(Head(items)).json[f].recs ELSE <<>>)
         \o ExpectedRecords(Tail(items), f)

\* C9: structured merge: after combine_results on a ResultCombiner used once,
\* the combined tree holds a file for exactly the structured filenames found
\* in the processed items, and its record list is the concatenation of their
\* record lists in visitation order.
C9_StructuredMerge ==
    (pc = "combined" /\ instanceUses = 1) =>
        \A f \in Range(JsonNames) :
            LET holders == SelectSeq(Processed, LAMBDA k : f \in DOMAIN OutputOf(k).json)
            IN  IF holders = <<>> THEN f \notin DOMAIN combinedTree.json
                ELSE /\ f \in DOMAIN combinedTree.json
                     /\ combinedTree.json[f] = ExpectedRecords(Processed, f)

\* A combine finished in which two items hold the same structured filename.
C9_Witness ==
    /\ pc = "combined"
    /\ instanceUses = 1
    /\ \E f \in Range(JsonNames) :
          Len(SelectSeq(Processed, LAMBDA k : f \in DOMAIN OutputOf(k).json)) >= 2

\* The structured processor has run for item k.
JsonProcessorRan(k) == \E n \in 1..Len(procTrace) : procTrace[n] = <<"json", k>>

SubmitMapJobRaised ==
    /\ pc = "raised"
    /\ phaseLog # <<>>
    /\ phaseLog[Len(phaseLog)] = Started("dispatch")

\* The exceptions that come out of the cluster's parallel map (parallelize,
\* map, collect): the cluster failed, or a task raised and aborted the job.
MapPrimitiveErrors ==
    {"ZeroDivisionError", "Py4JError: stopped SparkContext",
     "Py4JJavaError: cluster", "Py4JJavaError: task failed"}

CombineNeverStarted ==
    /\ invocation = 0
    /\ Started("combine") \notin Range(phaseLog)
    /\ combinedTree = EmptyTree
    /\ ~sparkStopped

\* C11: submit_map_job, called on a non-empty input list, raises only when
\* the parallel map itself fails: whenever it has raised, the exception is
\* one of the parallel map, and whenever the map returned a result for every
\* item it does not raise.
C11_RaisesOnlyOnMapFailure ==
    input_list # <<>> =>
        /\ SubmitMapJobRaised => err \in MapPrimitiveErrors
        /\ pc = "raised" => ~AllTasksReturned

\* C12: dispatch barrier: submit_map_job returns to its caller, which alone
\* can start a combine on its results, only when every task of the batch has
\* returned and none is pending or running; the shared-storage root changes
\* only in the step of a running task, so from the return on nothing writes
\* under the root.
C12_DispatchBarrier ==
    /\ []((pc = "dispatched" \/ manifestWrites > 0 \/ result # <<>>) =>
            /\ \A i \in Items : taskState[i] \notin {"pending", "running"}
            /\ \A i \in Range(input_list) :
                  taskState[i] = "done" /\ childOf[i].kind # "none")
    /\ [][storage' # storage =>
            (pc = "map" /\ \E i \in Items : taskState[i] = "running")]_vars
    /\ [][pc = "dispatched" => storage' = storage]_vars

\* submit_map_job has returned for a batch of two items or more, one of them
\* failed, whose tasks wrote under the root.
C12_Witness ==
    /\ pc = "dispatched"
    /\ Len(input_list) >= 2
    /\ \A i \in Range(input_list) : taskState[i] = "done" /\ storage[i].exists
    /\ \E i \in Range(input_list) : childOf[i].code # 0

\* What the environment can end a run with before its first step: a home
\* directory is not set, or the name node cannot be asked.
EnvironmentFailures ==
    {"AssertionError: home not set", "ValueError: HADOOP_HOME",
     "RuntimeError: hdfs getconf"}

\* C13: every run of run_tool_as_spark_app that its environment does not end
\* takes the coordinator steps in the order prepare, dispatch, combine,
\* cleanup, the first after the HdfsManager is constructed: the run gets to
\* the first of them, the preparation of the shared-storage root.
C13_StepOrder ==
    \/ <>(pc = "raised" /\ err \in EnvironmentFailures)
    \/ <>(pc = "prepare")

\* The entries _submit_jar_cmd contributed for item i: the log list of
\* run_jar_map_func after its two heading entries; and their first lines.
SubmitEntries(i) == SubSeq(map_fn_result[i].logs, 3, Len(map_fn_result[i].logs))
Headers(entries) == [n \in DOMAIN entries |-> entries[n][1]]
CountOf(lines, tag) == Cardinality({n \in DOMAIN lines : lines[n][1] = tag})

\* C14: for every outcome of the child process the log entries of the item
\* are: the started line, then the success narration (zero exit: succeeded
\* with the captured stdout, then stderr if not empty) or the failure
\* narration (otherwise: failed with the exit code, then stdout if not empty,
\* then stderr if not empty), then the processing-time line as the last
\* entry; there is one started line and one time line, and exactly one of the
\* two narrations.
C14_LogOrder ==
    \A i \in Items :
        childOf[i].kind # "none" =>
            LET c == childOf[i]
                entries == SubmitEntries(i)
                lines == Headers(entries)
                middle == SubSeq(entries, 2, Len(entries) - 1)
                streams == (IF c.out # ""
                              THEN <<<<Line("stdout", 0)>> \o StreamText(c.out, 1)>>
                            ELSE <<>>)
                           \o (IF c.errout # ""
                                 THEN <<<<Line("stderr", 0)>> \o StreamText(c.errout, 2)>>
                               ELSE <<>>)
            IN  /\ Len(entries) >= 3
                /\ entries[1] = <<Line("started", i)>>
                /\ entries[Len(entries)] = <<Line("time", 0)>>
                /\ CountOf(lines, "started") = 1
                /\ CountOf(lines, "time") = 1
                /\ CountOf(lines, "succeeded") + CountOf(lines, "failed") = 1
                /\ (c.kind = "exit" /\ c.code = 0) =>
                      /\ middle[1] = <<Line("succeeded", 0)>> \o StreamText(c.out, 1)
                      /\ Len(middle) = 1 + (IF c.errout # "" THEN 1 ELSE 0)
                      /\ c.errout # "" =>
                            middle[2] = <<Line("stderr", 0)>> \o StreamText(c.errout, 2)
                /\ (c.kind = "exit" /\ c.code # 0) =>
                      middle = <<<<Line("failed", c.code)>>>> \o streams

\* C15: a dispatch opens the run log to write at most once, in a step taken
\* when every item's task has returned, and the file changes in no other
\* step; when submit_map_job returns it has written it once, and its content
\* is one block per item in input order, each block that item's log lines,
\* with one empty line between consecutive blocks, and its last line is the
\* "Job took ... to complete" line.
C15_ManifestWrittenOnce ==
    /\ [](/\ manifestWrites <= 1
          /\ manifestWrites = 0 => manifest \in RunLogsBefore
          /\ manifestWrites = 1 =>
                manifest.written /\ \A i \in Range(input_list) : taskState[i] = "done"
          /\ pc = "dispatched" =>
                LET lines == manifest.lines
                IN  /\ manifestWrites = 1
                    /\ ManifestHoldsBundlesOf(input_list)
                    /\ lines[Len(lines)] = Line("jobtook", 0)
                    /\ CountOf(lines, "jobtook") = 1)
    /\ [][(manifest' # manifest \/ manifestWrites' # manifestWrites) =>
            /\ manifestWrites = 0
            /\ manifestWrites' = 1
            /\ pc = "map"
            /\ \A i \in Range(input_list) : taskState[i] = "done"]_vars

\* The run log of a batch of two items or more, one of them with captured
\* output, has been written and submit_map_job has returned.
C15_Witness ==
    /\ manifest.written
    /\ Len(input_list) >= 2
    /\ \E i \in Range(input_list) : childOf[i].out = "lines"
    /\ pc = "dispatched"

\* C17: if SPARK_HOME, HADOOP_HOME or JAVA_HOME is unset, the run fails at
\* startup: it never gets past the construction of the executor, the only way
\* on is the error raised there, and neither then nor later is the root
\* removed, created or changed, a task dispatched, the run log written or any
\* combined output produced.
C17_UnsetHomeFailsAtStartup ==
    /\ []((\E v \in EnvVars : ~env[v]) =>
            /\ pc \in {"construct", "raised"}
            /\ pc = "raised" => err = "AssertionError: home not set"
            /\ rootSetup = [rm |-> "none", mkdir |-> "none"]
            /\ phaseLog = <<>>
            /\ \A i \in Items : taskState[i] = "none" /\ started[i] = 0
            /\ ~manifest.written
            /\ CombineNeverStarted)
    /\ []((pc = "raised" /\ err = "AssertionError: home not set")
            => \E v \in EnvVars : ~env[v])
    /\ [][(\E v \in EnvVars : ~env[v]) => storage' = storage]_vars

\* The run failed at startup with HADOOP_HOME unset, over a root that holds a
\* directory of an earlier run.
C17_Witness ==
    /\ pc = "raised"
    /\ err = "AssertionError: home not set"
    /\ ~env["HADOOP_HOME"]
    /\ env["SPARK_HOME"] /\ env["JAVA_HOME"]
    /\ storage[MaxItems].exists

\* C18: every argument vector built by _get_jar_command for an item is
\* [interpreter, jvm args..., -cp, joined classpath, entry-point class, the
\* tool's own arguments..., --output-directory, the item's output directory,
\* the item's input path]: the jvm args are the command's in their order with
\* the log-configuration flag pointing at the worker-local staged copy of the
\* log-configuration file, the classpath is the staged dependencies followed by
\* SPARK_HOME/jars/*, and the last three elements come after all of the tool's
\* own arguments.
C18_CommandShape ==
    jar_command # <<>> =>
        \E i \in Items :
            LET jvm == submission_cmd.jvm_args
                nj == Len(jvm)
                own == rapids_args(submission_cmd)
                deps == submission_cmd.dependencies_paths
                n == Len(jar_command)
                staged_log == Path(SparkFilesRoot, submission_cmd.jvm_log_file.name)
            IN  /\ n = 1 + nj + 3 + Len(own) + 3
                /\ jar_command[1] = Arg("JAVA_HOME/bin/java", <<>>)
                /\ SubSeq(jar_command, 2, nj + 1) = jvm
                /\ \A k \in 1..n :
                      IsLogConfigFlag(jar_command[k]) =>
                         /\ k \in 2..(nj + 1)
                         /\ jar_command[k].paths = <<staged_log>>
                /\ Cardinality({k \in 1..n : IsLogConfigFlag(jar_command[k])}) = 1
                /\ jar_command[nj + 2] = Arg("-cp", <<>>)
                /\ jar_command[nj + 3].tag = "classpath"
                /\ jar_command[nj + 3].paths =
                      [k \in 1..(Len(deps) + 1) |->
                          IF k <= Len(deps) THEN Path(SparkFilesRoot, deps[k].name)
                          ELSE Path(<<"SPARK_HOME", "jars">>, 0)]
                /\ jar_command[nj + 4] = Arg("jar_main_class", <<>>)
                /\ SubSeq(jar_command, nj + 5, n - 3) = own
                /\ jar_command[n - 2] = Arg("--output-directory", <<>>)
                /\ jar_command[n - 1] = Arg("path", <<Path(hdfs_base_dir, i)>>)
                /\ jar_command[n] = Arg("path", <<EventLog(i)>>)

\* A vector was built from a command with two own arguments, a dependency and
\* a log-configuration flag that is not the first jvm argument.
C18_Witness ==
    /\ jar_command # <<>>
    /\ Len(rapids_args(submission_cmd)) >= 2
    /\ Len(submission_cmd.dependencies_paths) >= 1
    /\ Len(submission_cmd.jvm_args) >= 2
    /\ ~IsLogConfigFlag(submission_cmd.jvm_args[1])

\* The entries of the listed directory that are regular files.
RegularFiles == {k \in DOMAIN directory.entries : directory.entries[k].type = "File"}

\* C19: get_files_from_path returns exactly the regular files that are direct
\* children of the directory, each once and in listing order: no
\* subdirectory, nothing from below a subdirectory; and every returned path is
\* the NameNode address followed by the directory's path and the file's name,
\* whether the directory was given as an hdfs:// URI or as a bare path.
C19_DirectRegularFiles ==
    pc \in {"listed", "assigned"} =>
        /\ Len(file_list) = Cardinality(RegularFiles)
        /\ {file_list[n] : n \in DOMAIN file_list} =
              {Path(<<NameNode>> \o EventLogDirPath, k) : k \in RegularFiles}
        /\ \A n \in DOMAIN file_list :
              /\ Head(file_list[n].dir) = NameNode
              /\ Tail(file_list[n].dir) = EventLogDirPath
              /\ \A m \in DOMAIN file_list :
                    n < m => file_list[n].name < file_list[m].name

\* A directory given as a bare path, holding a regular file that follows a
\* subdirectory with a file of its own, has been listed.
C19_Witness ==
    /\ pc = "listed"
    /\ directory.given = EventLogDirPath
    /\ \E k \in RegularFiles :
          \E j \in 1..(k - 1) : directory.entries[j].nested
    /\ Len(file_list) >= 2

\* C20: the items of one listing are pairwise distinct paths, each item's
\* output directory is <root>/<base name of its path>, and no two items of the
\* listing are given the same output directory.
C20_DistinctOutputDirs ==
    pc = "assigned" =>
        /\ Len(output_dirs) = Len(file_list)
        /\ \A n \in DOMAIN file_list :
              /\ output_dirs[n].dir = hdfs_base_dir
              /\ output_dirs[n].name = file_list[n].name
        /\ \A n, m \in DOMAIN file_list :
              n # m => /\ file_list[n] # file_list[m]
                       /\ output_dirs[n] # output_dirs[m]

\* Two event logs or more of one directory, with a subdirectory among them, have
\* been given their output directories.
C20_Witness ==
    /\ pc = "assigned"
    /\ Len(output_dirs) >= 2
    /\ \E k \in DOMAIN directory.entries : directory.entries[k].type = "Directory"

(* ------------------------------- C21 ---------------------------------- *)
\* The place of item k in the listing of the root.
PosIn(seq, k) == CHOOSE n \in 1..Len(seq) : seq[n] = k
\* The processors that ran for item k, in the order they ran.
RECURSIVE TagsOf(_, _)
TagsOf(trace, k) ==
    IF trace = <<>> THEN <<>>
    ELSE IF Head(trace)[2] = k THEN <<Head(trace)[1]>> \o TagsOf(Tail(trace), k)
    ELSE TagsOf(Tail(trace), k)
IsPrefix(s, t) == Len(s) <= Len(t) /\ \A n \in 1..Len(s) : s[n] = t[n]
\* The pass the processors make over item k: runtime-properties for the
\* first processed item only, then tabular, structured, log, raw-metrics.
FixedOrder(k) ==
    (IF k = Processed[1] THEN <<"props">> ELSE <<>>) \o <<"csv", "json", "log", "raw">>
\* Item k has been visited by the running combine_results.
Visited(k) == k \in Range(directories) /\ PosIn(directories, k) <= dirIdx
\* The pass over item k was cut short by a processor that raised.
RaisedAt(k) == pc = "raised" /\ dirIdx > 0 /\ directories[dirIdx] = k

\* C21: every non-empty item directory visited by combine_results gets exactly
\* one pass of the processors in the order runtime-properties (first item
\* only), tabular, structured, log, raw-metrics (cut short only by a processor
\* that raises), and the passes of different items do not interleave: they
\* follow the order of the listing.
C21_OnePassInFixedOrder ==
    /\ \A n, m \in 1..Len(procTrace) :
          n < m => PosIn(directories, procTrace[n][2]) <= PosIn(directories, procTrace[m][2])
    /\ \A k \in Items :
          (Visited(k) /\ HasOutput(k)) =>
              IF RaisedAt(k) THEN IsPrefix(TagsOf(procTrace, k), FixedOrder(k))
              ELSE TagsOf(procTrace, k) = FixedOrder(k)

(* ------------------------------- C22 ---------------------------------- *)
\* C22: each of the five processors is idempotent: after process() has run
\* twice on the same item directory, the accumulators and the combined tree
\* are as they were after its first run.
C22_ProcessorsIdempotent ==
    (pc = "processor" /\ Len(procTrace) = 2) =>
        /\ combined_dataframes = onceState.dfs
        /\ combined_json_data = onceState.json
        /\ combinedTree = onceState.tree

(* ------------------------------- C23 ---------------------------------- *)
\* The tabular and structured filenames met in the processed item directories.
CsvNamesFound == UNION {DOMAIN OutputOf(k).csv : k \in Range(Processed)}
JsonNamesFound == UNION {DOMAIN OutputOf(k).json : k \in Range(Processed)}
\* The flush at the end of combine_results.
IsFlushStep == pc = "visit" /\ dirIdx = Len(directories) /\ pc' = "combined"

\* C23: the merged tabular and structured files of the combined tree change
\* only in the flush that follows the visit of the last item directory; that
\* flush writes every accumulated filename, each once; during the visits of
\* the first combine, and when it raised, the tree holds no merged file, and
\* when it finished the tree holds exactly the filenames met in the items.
C23_MergedFilesWrittenAtFlush ==
    /\ [][ ( \/ combinedTree'.csv # combinedTree.csv
             \/ combinedTree'.json # combinedTree.json ) => IsFlushStep ]_vars
    /\ [][ IsFlushStep =>
             /\ \A f \in DOMAIN combined_dataframes :
                   combinedTree'.csv[f] = to_csv(combined_dataframes[f])
             /\ \A f \in DOMAIN combined_json_data :
                   combinedTree'.json[f] = combined_json_data[f]
             /\ \A f \in (DOMAIN combinedTree.csv) \ (DOMAIN combined_dataframes) :
                   combinedTree'.csv[f] = combinedTree.csv[f]
             /\ \A f \in (DOMAIN combinedTree.json) \ (DOMAIN combined_json_data) :
                   combinedTree'.json[f] = combinedTree.json[f] ]_vars
    /\ []( (invocation = 1 /\ pc \in {"visit", "raised"}) =>
              /\ combinedTree.csv = EmptyMap
              /\ combinedTree.json = EmptyMap )
    /\ []( (invocation = 1 /\ pc = "combined") =>
              /\ DOMAIN combinedTree.csv = CsvNamesFound
              /\ DOMAIN combinedTree.json = JsonNamesFound )

\* A first combine finished over two processed items that share a tabular
\* filename and hold a structured file each: the files are in the tree.
C23_Witness ==
    /\ pc = "combined"
    /\ invocation = 1
    /\ Len(Processed) >= 2
    /\ \E f \in CsvNamesFound : \A k \in Range(Processed) : f \in DOMAIN OutputOf(k).csv
    /\ JsonNamesFound # {}
    /\ DOMAIN combinedTree.csv = CsvNamesFound

(* ------------------------------- C24 ---------------------------------- *)
\* The log file f of the combined tree, empty when the tree has no such file.
CombinedLog(f) == IF f \in DOMAIN combinedTree.log THEN combinedTree.log[f] ELSE <<>>
\* The same-named logs of the items of seq, concatenated in the order of seq.
RECURSIVE LogsConcatenated(_, _)
LogsConcatenated(seq, f) ==
    IF seq = <<>> THEN <<>>
    ELSE (IF f \in DOMAIN OutputOf(Head(seq)).log THEN OutputOf(Head(seq)).log[f] ELSE <<>>)
         \o LogsConcatenated(Tail(seq), f)
\* The items whose log processor has run, in the order it ran.
RECURSIVE LogVisited(_)
LogVisited(trace) ==
    IF trace = <<>> THEN <<>>
    ELSE (IF Head(trace)[1] = "log" THEN <<Head(trace)[2]>> ELSE <<>>)
         \o LogVisited(Tail(trace))

\* C24: the log processor appends an item's log to the same-named file of the
\* combined tree when the item is visited: during a combine into a tree that
\* had no log, the combined log is at every moment the concatenation of the
\* logs of the items whose log processor has run, the flush does not touch
\* it, and after the combine it is the concatenation of the logs of the
\* processed items in visitation order.
C24_LogMerge ==
    /\ []( invocation = 1 =>
              \A f \in Range(LogNames) :
                 CombinedLog(f) = LogsConcatenated(LogVisited(procTrace), f) )
    /\ []( (invocation = 1 /\ pc = "combined") =>
              \A f \in Range(LogNames) :
                 CombinedLog(f) = LogsConcatenated(Processed, f) )
    /\ [][ combinedTree'.log # combinedTree.log =>
              (pc = "visit" /\ dirIdx < Len(directories) /\ dirIdx' = dirIdx + 1) ]_vars

\* A first combine finished over two processed items: the combined log holds
\* the log of the first followed by the log of the second.
C24_Witness ==
    /\ pc = "combined"
    /\ invocation = 1
    /\ Len(Processed) = 2
    /\ \E f \in Range(LogNames) :
          /\ CombinedLog(f) = OutputOf(Processed[1]).log[f] \o OutputOf(Processed[2]).log[f]
          /\ OutputOf(Processed[1]).log[f] # OutputOf(Processed[2]).log[f]

(* ------------------------------- C25 ---------------------------------- *)
\* C25: a run repeated with the same output folder overwrites the combined
\* tree: when the combine of a second run (a new ResultCombiner over the same
\* item directories and the same combined directory) has finished, every
\* file of the tree has the content it had after the first run.
C25_RerunOverwritesTree ==
    (pc = "combined" /\ invocation = 2 /\ instanceUses = 1) =>
        combinedTree = firstTree

(* ------------------------------- C26 ---------------------------------- *)
\* The processed items that hold raw-metrics file q, in visitation order.
RawHolders(q) ==
    SelectSeq(Processed, LAMBDA k : OutputOf(k).raw.exists /\ q \in DOMAIN OutputOf(k).raw.files)
\* The number of runs of the raw-metrics processor on item k.
RawRuns(k) == Len(SelectSeq(procTrace, LAMBDA e : e = <<"raw", k>>))

\* C26: the raw-metrics processor runs once per processed item and copies
\* its subtree unmerged: when the first combine has finished, the combined
\* tree holds exactly the raw-metrics paths of the processed items, each with
\* the content of the last visited item that holds it.
C26_RawMetricsLastWriteWins ==
    (pc = "combined" /\ invocation = 1) =>
        /\ \A k \in Range(Processed) : RawRuns(k) = 1
        /\ DOMAIN combinedTree.raw =
              UNION {DOMAIN OutputOf(k).raw.files : k \in Range(Processed)}
        /\ \A q \in DOMAIN combinedTree.raw :
              LET holders == RawHolders(q)
              IN  combinedTree.raw[q] = OutputOf(holders[Len(holders)]).raw.files[q]

\* A first combine finished over two processed items that hold a raw-metrics
\* file at the same path and one each at a path of their own.
C26_Witness ==
    /\ pc = "combined"
    /\ invocation = 1
    /\ Len(Processed) = 2
    /\ \E q \in DOMAIN combinedTree.raw :
          /\ Len(RawHolders(q)) = 2
          /\ OutputOf(Processed[1]).raw.files[q] # OutputOf(Processed[2]).raw.files[q]
          /\ combinedTree.raw[q] = OutputOf(Processed[2]).raw.files[q]
    /\ \A k \in Range(Processed) :
          \E q \in DOMAIN combinedTree.raw : RawHolders(q) = <<k>>

(* ------------------------------- C27 ---------------------------------- *)
\* C27: building the argument vector of an item leaves the submission command
\* of the executor (jvm_args, dependencies_paths, the tool's own arguments) as
\* it was.
C27_TemplateUnchanged ==
    [][ (pc = "command" /\ jar_command' # <<>>) => submission_cmd' = submission_cmd ]_vars

(* ------------------------------- C28 ---------------------------------- *)
\* Some task of the batch has started.
SomeTaskStarted == \E i \in Items : started[i] > 0 \/ taskState[i] \notin {"none", "pending"}

\* C28: staging precedes dispatch: when a task of the batch has started, or
\* the input has been handed to the dispatcher, every dependency path and the
\* log-configuration file have been added with addFile, and nothing is staged
\* from then on.
C28_StagingPrecedesDispatch ==
    /\ []( (SomeTaskStarted \/ pc = "map") =>
              /\ Range(submission_cmd.dependencies_paths) \subseteq stagedFiles
              /\ submission_cmd.jvm_log_file \in stagedFiles )
    /\ [][ SomeTaskStarted => stagedFiles' = stagedFiles ]_vars

\* A task runs while the dependencies and the log-configuration file of the
\* command are staged.
C28_Witness ==
    /\ \E i \in Items : taskState[i] = "running"
    /\ Len(submission_cmd.dependencies_paths) >= 2
    /\ Cardinality(stagedFiles) = Len(submission_cmd.dependencies_paths) + 1

(* ------------------------------- C29 ---------------------------------- *)
\* The input has been handed to the dispatcher and partitioned.
Partitioned == input_list_rdd # <<>>

\* C29: the dispatcher makes as many partitions as there are input items,
\* partition p holding item p alone; the per-item function is started for
\* nothing else, for no item twice, and when the dispatch has returned it has
\* been started exactly once for every input item.
C29_OneTaskPerItem ==
    /\ Partitioned =>
          /\ Len(input_list_rdd) = Len(input_list)
          /\ \A p \in DOMAIN input_list_rdd : input_list_rdd[p] = <<input_list[p]>>
    /\ \A i \in Items : started[i] <= 1
    /\ \A i \in Items : started[i] > 0 => (Partitioned /\ i \in Range(input_list))
    /\ pc = "dispatched" => \A i \in Range(input_list) : started[i] = 1

DispatchedItems == Range(input_list)
\* C31: everything in the combined tree comes from an item directory written
\* by a task of the same run: when the combine has finished, every processed
\* item directory, and every item a row, record or log line of the combined
\* tree carries, belongs to an event log that was dispatched.
C31_NoStaleContribution ==
    pc = "combined" =>
        /\ Range(Processed) \subseteq DispatchedItems
        /\ \A f \in DOMAIN combinedTree.csv :
              \A n \in 1..Len(combinedTree.csv[f].rows) :
                 combinedTree.csv[f].rows[n][1] \in DispatchedItems
        /\ \A f \in DOMAIN combinedTree.json :
              \A n \in 1..Len(combinedTree.json[f]) :
                 combinedTree.json[f][n].id \in DispatchedItems
        /\ \A f \in DOMAIN combinedTree.log :
              \A n \in 1..Len(combinedTree.log[f]) :
                 combinedTree.log[f][n][2] \in DispatchedItems

(* ------------------------------- C33 ---------------------------------- *)
\* C33: for an empty input list submit_map_job raises instead of returning an
\* empty result: called on it, it raises in parallelize or, when parallelize
\* returned, on unpacking the empty result of the map; it writes no run log
\* and returns nothing to its caller.
C33_EmptyInputRaises ==
    /\ [][ (pc = "submit" /\ input_list = <<>> /\ pc' # pc)
             => \/ pc' = "raised" /\ err' = "ZeroDivisionError"
                \/ pc' = "raised" /\ sparkStopped
                \/ pc' = "map" /\ input_list_rdd' = <<>> ]_vars
    /\ [][ (pc = "map" /\ input_list = <<>>)
             => (pc' = "raised" /\ err' # "" /\ manifest' = manifest) ]_vars
    /\ []( (input_list = <<>> /\ pc \notin {"stage", "submit"}) =>
              /\ pc \in {"map", "raised"}
              /\ manifest \in RunLogsBefore
              /\ manifestWrites = 0
              /\ result = <<>>
              /\ \A i \in Items : started[i] = 0 )

\* submit_map_job, called on an empty list after the files had been staged,
\* raised on unpacking the result of the map.
C33_Witness ==
    /\ pc = "raised"
    /\ err = "ValueError: not enough values to unpack"
    /\ input_list = <<>>
    /\ stagedFiles # {}
    /\ manifestWrites = 0

(* ------------------------------- C34 ---------------------------------- *)
\* What the combiner holds: accumulators and combined tree.
Combined(dfs, js, tree) == [dfs |-> dfs, json |-> js, tree |-> tree]
\* The loop body applied to item directory k as if it held its first child
\* entry only.
VisitFirstOnly(k) ==
    VisitDirectory(CombinerState(combined_dataframes, combined_json_data,
                                 combinedTree, hdfsCombinedFile, procTrace),
                   IF storage[k].entries = <<>> THEN <<>>
                   ELSE <<storage[k].entries[1]>>, k)

\* C34: combine_results processes exactly one child entry of an item
\* directory, the first in listing order: the visit of an item directory
\* leaves the accumulators, the combined tree and the processor trace as the
\* visit of a directory holding that first entry alone would; no processor
\* runs twice for an item; and when the first combine has finished, every
\* row, record and log line of the tree carries an item, never what another
\* entry holds.
C34_FirstEntryOnly ==
    /\ [][ (pc = "visit" /\ dirIdx < Len(directories) /\ dirIdx' = dirIdx + 1) =>
             LET cs == VisitFirstOnly(directories[dirIdx + 1])
             IN  /\ Combined(combined_dataframes', combined_json_data', combinedTree')
                       = Combined(cs.dfs, cs.json, cs.tree)
                 /\ hdfsCombinedFile' = cs.hdfs_file
                 /\ procTrace' = cs.trace ]_vars
    /\ [](\A n, m \in 1..Len(procTrace) : procTrace[n] = procTrace[m] => n = m)
    /\ []( (pc = "combined" /\ invocation = 1) =>
              /\ \A f \in DOMAIN combinedTree.csv :
                    \A n \in 1..Len(combinedTree.csv[f].rows) :
                       combinedTree.csv[f].rows[n][1] \in Range(Processed)
              /\ \A f \in DOMAIN combinedTree.json :
                    \A n \in 1..Len(combinedTree.json[f]) :
                       combinedTree.json[f][n].id \in Range(Processed)
              /\ \A f \in DOMAIN combinedTree.log :
                    \A n \in 1..Len(combinedTree.log[f]) :
                       combinedTree.log[f][n][2] \in Range(Processed)
              /\ \A q \in DOMAIN combinedTree.raw : combinedTree.raw[q] \in Range(Processed) )

\* A first combine finished over an item directory that holds two child
\* entries, both with tabular files: the tree holds tabular files.
C34_Witness ==
    /\ pc = "combined"
    /\ invocation = 1
    /\ \E k \in Range(Processed) :
          /\ Len(storage[k].entries) >= 2
          /\ DOMAIN storage[k].entries[1].csv # {}
          /\ storage[k].entries[2] # storage[k].entries[1]
    /\ DOMAIN combinedTree.csv # {}

=============================================================================
